---- MODULE Spec2Model ----
(***************************************************************************)
(* A model of the dailydarts repository.                                   *)
(*                                                                         *)
(*   - the leaderboard store of src/server/leaderboard.ts: upsertScore,    *)
(*     fetchTopN and getRankForUser as asynchronous calls whose store      *)
(*     commands (hGet, hSet, zAdd, zRange, hMGet, zRank, zCard) are the    *)
(*     atomic steps (specification Spec);                                  *)
(*   - the composite-score encoding as a pure function (SpecComposite);    *)
(*   - the input handlers, the render loop and the dart animation of      *)
(*     src/client/splash/src/script.js (SpecGame), and the round's        *)
(*     bookkeeping functions called directly (SpecRound, SpecRoundAny);    *)
(*   - the scoring engine of src/client/splash/src/scoring.js as a pure    *)
(*     function of the hit and the board's config (SpecScoring);           *)
(*   - the aim disc of src/client/splash/src/script_helpers.js called      *)
(*     directly (SpecAim);                                                 *)
(*   - the submit endpoint of src/server/index.ts, from the request's      *)
(*     validation to its response (SpecSubmit);                            *)
(*   - fetchTopN on stores with missing and corrupt metadata (SpecStored); *)
(*   - endRound called directly (SpecEndRound);                            *)
(*   - the release of the aim disc on the default board and the scoring    *)
(*     of its hit (SpecThrow);                                             *)
(*   - the game under frames that keep coming (SpecGameFrames).            *)
(*                                                                         *)
(* TLC's integers are 32 bits wide, so 10^12 cannot be written.  Every     *)
(* time and every composite value of the leaderboard is therefore counted  *)
(* in units of 10^9 ms: SCORE_MULTIPLIER = 10^12 ms = 1000 units, and      *)
(* Date.now() of late 2025 (about 1.76 * 10^12 ms) is about 1760 units.    *)
(* score * SCORE_MULTIPLIER - submittedAt is linear, so the scaling is     *)
(* exact for times that are multiples of 10^9 ms, and every value of the   *)
(* model is far below 2^53, where the code's doubles are exact too.        *)
(***************************************************************************)
EXTENDS Integers, Sequences, FiniteSets, TLC

VARIABLES
  \* ---- leaderboard store (one postId) ----
  meta,        \* hash leaderboard:<postId>:meta : userId -> encoded record
  zset,        \* sorted set leaderboard:<postId> : member -> score
  now,         \* Date.now()
  upsert,      \* the upsertScore calls in flight, one per caller slot
  fetch,       \* the fetchTopN call in flight
  rankq,       \* the getRankForUser call in flight
  nCalls,      \* number of upsertScore calls made so far
  submitted,   \* history: userId -> the scores submitted so far
  overlapped,  \* history: userId -> two of the user's calls have overlapped
  \* ---- composite score as a pure function ----
  cin,         \* the inputs <<s1, t1, s2, t2>>
  cout,        \* the two composite values, once computed
  \* ---- scoreFromBoardXY as a pure function ----
  scoreIn,     \* the hit and the config it is scored with
  scoreOut,    \* the result, once computed
  \* ---- the aim disc called directly (script_helpers.js) ----
  aim,         \* null, or the aim disc's state with its centre and its board
  shot,        \* what the call just made returned, if it was releaseAndSampleHit
  aimCall,     \* history: the call just made
  \* ---- POST /api/leaderboard/submit (index.ts) ----
  submit,      \* the request being handled, and its response
  \* ---- the game (script.js) ----
  gameStarted,     \* Start has been clicked
  roundActive, dartsThrown, totalScore, throwHistory,   \* the round
  isHoldingAim, holdPointerId,                          \* aiming input state
  aimDisc,         \* null, or the state of the aim disc
  activeDarts,     \* actionManager: the darts in flight or in their impact
  am,              \* actionManager: gameStarted, impactLogoEnabled
  logo,            \* the logo's animation state
  cam,             \* the camera rig's timers
  startShown,      \* the Start overlay is displayed
  roundEndShown,   \* the round-end panel is displayed
  introTimer,      \* the 500 ms timer of the intro throw
  lastScoreResult  \* history: the argument of the last registerThrowScore

lbVars   == <<meta, zset, now, upsert, fetch, rankq, nCalls, submitted, overlapped>>
scoreVars == <<scoreIn, scoreOut>>
aimVars == <<aim, shot, aimCall>>
compVars == <<cin, cout, scoreVars, aimVars, submit>>
gameVars == <<gameStarted, roundActive, dartsThrown, totalScore, throwHistory,
              isHoldingAim, holdPointerId, aimDisc, activeDarts, am, logo, cam,
              startShown, roundEndShown, introTimer, lastScoreResult>>
vars     == <<lbVars, compVars, gameVars>>

----------------------------------------------------------------------------
(* Bounds *)

MaxCalls == 3        \* upsertScore calls made in one behaviour
MaxScore == 1        \* scores submitted are 0..MaxScore
MaxNow == 2          \* Date.now() reads 1..MaxNow
MaxLimit == 2        \* fetchTopN limits are 0..MaxLimit
MaxCompScore == 2    \* the pure function's scores are -MaxCompScore..MaxCompScore
MaxHoldTime == 6     \* the aim is held for at most MaxHoldTime/60 s
MaxLogoHold == 4     \* the logo's hold counter runs to MaxLogoHold/60 s
MaxExtraThrows == 1  \* registerThrowScore calls made after a round's last dart
MaxRequests == 3     \* submit requests received
MaxAimHold == 90      \* the aim disc called directly is held for at most 1.5 s
SampleGrid == 4       \* Math.sqrt(Math.random()) is drawn from 0, 1/4, 2/4, 3/4
EdgeSpread == 1      \* the rNorm values scored lie this far on either side of a ring edge

Users  == {1, 2}     \* two userIds; their order is the members' lexical order
Slots  == {1, 2}     \* two callers, so that two calls can overlap
Scores == 0..MaxScore
Times  == 1..MaxNow       \* the readings of Date.now()

\* an optional value: <<>> is undefined / null, <<v>> is v
None    == <<>>
Some(v) == <<v>>
IsSome(o) == Len(o) = 1
Val(o)  == o[1]

Max(S) == CHOOSE x \in S : \A y \in S : y <= x
Min(S) == CHOOSE x \in S : \A y \in S : x <= y

----------------------------------------------------------------------------
(* leaderboard.ts *)

SCORE_MULTIPLIER == 1000

\* the double Infinity (JSON.parse reads 1e999 as Infinity), and JSON's null
Infinity == 1000000
NULL == -Infinity

\* JSON.stringify of a number: Infinity is written as null
jsonNumber(x) == IF x = Infinity THEN NULL ELSE x
\* ToNumber of a parsed JSON value that is a number or null
toNumber(v) == IF v = NULL THEN 0 ELSE v

\* JSON.stringify of {score, submittedAt, metadata}
encodeMetadata(record) ==
  [json |-> TRUE, score |-> jsonNumber(record.score), submittedAt |-> record.submittedAt,
   metadata |-> record.metadata]

\* hGet / hMGet give undefined / null for a missing field; a value that does
\* not parse gives null
decodeMetadata(value) ==
  IF ~IsSome(value) THEN None
  ELSE IF ~Val(value).json THEN None
  ELSE Some([score |-> Val(value).score, submittedAt |-> Val(value).submittedAt,
             metadata |-> Val(value).metadata])

\* lines 43-44
toCompositeScoreNoMultiplier(score, submittedAt) == score - submittedAt
toCompositeScore(score, submittedAt) ==
  IF score = Infinity THEN Infinity ELSE score * SCORE_MULTIPLIER - submittedAt

\* the store's commands
hGet(h, field) == IF field \in DOMAIN h THEN Some(h[field]) ELSE None
hSet(h, field, value) == [f \in (DOMAIN h) \cup {field} |-> IF f = field THEN value ELSE h[f]]
zAdd(z, member, score) == [m \in (DOMAIN z) \cup {member} |-> IF m = member THEN score ELSE z[m]]
zCard(z) == Cardinality(DOMAIN z)

\* the sorted set's order: by score, members of equal score by name
zBefore(z, a, b) == z[a] < z[b] \/ (z[a] = z[b] /\ a < b)
zRank(z, member) ==
  IF member \in DOMAIN z
  THEN Some(Cardinality({m \in DOMAIN z : zBefore(z, m, member)}))
  ELSE None

\* the member at 0-based index i of the ascending order
zAt(z, i) == CHOOSE m \in DOMAIN z : Val(zRank(z, m)) = i

\* zRange(key, start, stop, {by: "rank", reverse}) for 0 <= start
zRangeAscending(z, start, stop, reverse) ==
  LET n    == zCard(z)
      last == IF stop < n - 1 THEN stop ELSE n - 1
      len  == IF last >= start THEN last - start + 1 ELSE 0
  IN  [i \in 1..len |->
         LET m == zAt(z, start + i - 1)
         IN  [member |-> m, score |-> z[m]]]
zRange(z, start, stop, reverse) ==
  LET n    == zCard(z)
      last == IF stop < n - 1 THEN stop ELSE n - 1
      len  == IF last >= start THEN last - start + 1 ELSE 0
  IN  [i \in 1..len |->
         LET k == start + i - 1
             m == zAt(z, IF reverse THEN n - 1 - k ELSE k)
         IN  [member |-> m, score |-> z[m]]]

hMGet(h, fields) == [i \in 1..Len(fields) |-> hGet(h, fields[i])]

----------------------------------------------------------------------------
(* upsertScore, lines 46-69 *)

IdleUpsert ==
  [pc |-> "idle", userId |-> 0, score |-> 0, metadata |-> "", existing |-> None,
   submittedAt |-> 0, pending |-> {}]

\* line 55: if (existing && existing.score >= score) return existing
keepsExistingStrict(existing, score) ==
  IsSome(existing) /\ toNumber(Val(existing).score) > score
keepsExisting(existing, score) ==
  IsSome(existing) /\ toNumber(Val(existing).score) >= score

\* line 60: const record = { score, submittedAt, metadata }
upsertRecord(c) == [score |-> c.score, submittedAt |-> c.submittedAt, metadata |-> c.metadata]

\* lines 56 and 68: what the call resolves to, given what it read and when
upsertReturn(c) ==
  IF keepsExisting(c.existing, c.score) THEN c.existing ELSE Some(upsertRecord(c))

InProgress(u) == \E p \in Slots : upsert[p].pc # "idle" /\ upsert[p].userId = u

\* the call is made: nothing of it has run yet.  Callers are anonymous: a new
\* call takes the lowest free slot.
UpsertStart(p, u, s, md) ==
  /\ upsert[p].pc = "idle"
  /\ \A q \in Slots : q < p => upsert[q].pc # "idle"
  /\ nCalls < MaxCalls
  /\ upsert' = [upsert EXCEPT ![p] = [IdleUpsert EXCEPT !.pc = "hGet", !.userId = u,
                                                        !.score = s, !.metadata = md]]
  /\ nCalls' = nCalls + 1
  /\ submitted' = [submitted EXCEPT ![u] = @ \cup {s}]
  /\ overlapped' = [overlapped EXCEPT ![u] = @ \/ InProgress(u)]
  /\ UNCHANGED <<meta, zset, now, fetch, rankq>>

\* line 54: the store answers redis.hGet(metaKey, userId)
UpsertHGet(p) ==
  /\ upsert[p].pc = "hGet"
  /\ upsert' = [upsert EXCEPT ![p].pc = "resume",
                              ![p].existing = decodeMetadata(hGet(meta, upsert[p].userId))]
  /\ UNCHANGED <<meta, zset, now, fetch, rankq, nCalls, submitted, overlapped>>

\* lines 55-67: the continuation after the await: return the existing record,
\* or take Date.now() and issue hSet and zAdd together (Promise.all).
\* Date.now() is read nowhere else, so the time that has passed since it was
\* last read is chosen here: t is any time from the last reading on.
UpsertResume(p, t) ==
  /\ upsert[p].pc = "resume"
  /\ t >= now
  /\ IF keepsExisting(upsert[p].existing, upsert[p].score)
     THEN /\ upsert' = [upsert EXCEPT ![p] = IdleUpsert]
          /\ t = now
          /\ UNCHANGED now
     ELSE /\ upsert' = [upsert EXCEPT ![p].pc = "write", ![p].submittedAt = t,
                                      ![p].pending = {"hSet", "zAdd"}]
          /\ now' = t
  /\ UNCHANGED <<meta, zset, fetch, rankq, nCalls, submitted, overlapped>>

\* line 68: return record, once both writes have been answered
UpsertAfterWrite(p, cmd) ==
  IF upsert[p].pending = {cmd}
  THEN upsert' = [upsert EXCEPT ![p] = IdleUpsert]
  ELSE upsert' = [upsert EXCEPT ![p].pending = @ \ {cmd}]

\* line 62: the store executes redis.hSet(metaKey, {[userId]: encodeMetadata(record)})
UpsertHSet(p) ==
  /\ upsert[p].pc = "write"
  /\ "hSet" \in upsert[p].pending
  /\ meta' = hSet(meta, upsert[p].userId, encodeMetadata(upsertRecord(upsert[p])))
  /\ UpsertAfterWrite(p, "hSet")
  /\ UNCHANGED <<zset, now, fetch, rankq, nCalls, submitted, overlapped>>

\* lines 63-66: the store executes redis.zAdd(key, {member, score: composite})
UpsertZAdd(p) ==
  /\ upsert[p].pc = "write"
  /\ "zAdd" \in upsert[p].pending
  /\ zset' = zAdd(zset, upsert[p].userId,
                  toCompositeScore(upsert[p].score, upsert[p].submittedAt))
  /\ UpsertAfterWrite(p, "zAdd")
  /\ rankq' = IF rankq.pc = "reads" /\ rankq.userId = upsert[p].userId
              THEN [rankq EXCEPT !.ownWrite = TRUE]
              ELSE rankq
  /\ UNCHANGED <<meta, now, fetch, nCalls, submitted, overlapped>>

----------------------------------------------------------------------------
(* fetchTopN, lines 71-95 *)

IdleFetch == [pc |-> "idle", limit |-> 0, topEntries |-> <<>>, returned |-> FALSE, ret |-> <<>>]

\* lines 85-94: topEntries.map((entry, index) => ...)
fetchEntriesZeroFallback(topEntries, metaValues) ==
  [index \in 1..Len(topEntries) |->
     LET entry == topEntries[index]
         m     == decodeMetadata(metaValues[index])
     IN  [userId      |-> entry.member,
          score       |-> IF IsSome(m) THEN Val(m).score ELSE 0,
          submittedAt |-> IF IsSome(m) THEN Val(m).submittedAt ELSE 0,
          metadata    |-> IF IsSome(m) THEN Some(Val(m).metadata) ELSE None,
          rank        |-> index]]
fetchEntries(topEntries, metaValues) ==
  [index \in 1..Len(topEntries) |->
     LET entry == topEntries[index]
         m     == decodeMetadata(metaValues[index])
     IN  [userId      |-> entry.member,
          score       |-> IF IsSome(m) /\ Val(m).score # NULL
                          THEN Val(m).score ELSE entry.score,
          submittedAt |-> IF IsSome(m) THEN Val(m).submittedAt ELSE 0,
          metadata    |-> IF IsSome(m) THEN Some(Val(m).metadata) ELSE None,
          rank        |-> index]]

members(topEntries) == [i \in 1..Len(topEntries) |-> topEntries[i].member]

\* the whole of fetchTopN on a store that does not change under it
fetchTopN(z, h, limit) ==
  IF limit <= 0 THEN <<>>
  ELSE LET topEntries == zRange(z, 0, limit - 1, TRUE)
       IN  fetchEntries(topEntries, hMGet(h, members(topEntries)))

\* line 76: if (limit <= 0) return []; else line 78 sends zRange
FetchStart(limit) ==
  /\ fetch.pc = "idle"
  /\ IF limit <= 0
     THEN fetch' = [IdleFetch EXCEPT !.returned = TRUE, !.limit = limit]
     ELSE fetch' = [IdleFetch EXCEPT !.pc = "zRange", !.limit = limit]
  /\ UNCHANGED <<meta, zset, now, upsert, rankq, nCalls, submitted, overlapped>>

\* lines 78-79: the store answers zRange; an empty answer returns []
FetchZRange ==
  /\ fetch.pc = "zRange"
  /\ LET topEntries == zRange(zset, 0, fetch.limit - 1, TRUE)
     IN  IF Len(topEntries) = 0
         THEN fetch' = [IdleFetch EXCEPT !.returned = TRUE, !.limit = fetch.limit]
         ELSE fetch' = [fetch EXCEPT !.pc = "hMGet", !.topEntries = topEntries]
  /\ UNCHANGED <<meta, zset, now, upsert, rankq, nCalls, submitted, overlapped>>

\* lines 83-94: the store answers hMGet and the entries are built
FetchHMGet ==
  /\ fetch.pc = "hMGet"
  /\ fetch' = [fetch EXCEPT !.pc = "idle", !.returned = TRUE,
                            !.ret = fetchEntries(fetch.topEntries,
                                                 hMGet(meta, members(fetch.topEntries)))]
  /\ UNCHANGED <<meta, zset, now, upsert, rankq, nCalls, submitted, overlapped>>

----------------------------------------------------------------------------
(* getRankForUser, lines 97-106 *)

\* ownWrite is history: a zAdd of the asked user fell between the two reads
IdleRank == [pc |-> "idle", userId |-> 0, rank |-> None, total |-> 0, pending |-> {},
             returned |-> FALSE, ret |-> None, ownWrite |-> FALSE]

\* lines 104-105
rankResultAscending(rank, total) == IF ~IsSome(rank) THEN None ELSE Some(Val(rank) + 1)
rankResult(rank, total) == IF ~IsSome(rank) THEN None ELSE Some(total - Val(rank))

\* the whole of getRankForUser on a store that does not change under it
getRankForUser(z, u) == rankResult(zRank(z, u), zCard(z))

\* line 103: zRank and zCard are sent together (Promise.all)
RankStart(u) ==
  /\ rankq.pc = "idle"
  /\ rankq' = [IdleRank EXCEPT !.pc = "reads", !.userId = u, !.pending = {"zRank", "zCard"}]
  /\ UNCHANGED <<meta, zset, now, upsert, fetch, nCalls, submitted, overlapped>>

\* the continuation of line 103 runs once both answers are in
RankAfterRead(cmd, rank, total) ==
  IF rankq.pending = {cmd}
  THEN rankq' = [rankq EXCEPT !.pc = "idle", !.pending = {}, !.rank = rank, !.total = total,
                              !.returned = TRUE, !.ret = rankResult(rank, total)]
  ELSE rankq' = [rankq EXCEPT !.pending = @ \ {cmd}, !.rank = rank, !.total = total]

RankZRank ==
  /\ rankq.pc = "reads"
  /\ "zRank" \in rankq.pending
  /\ RankAfterRead("zRank", zRank(zset, rankq.userId), rankq.total)
  /\ UNCHANGED <<meta, zset, now, upsert, fetch, nCalls, submitted, overlapped>>

RankZCard ==
  /\ rankq.pc = "reads"
  /\ "zCard" \in rankq.pending
  /\ RankAfterRead("zCard", rankq.rank, zCard(zset))
  /\ UNCHANGED <<meta, zset, now, upsert, fetch, nCalls, submitted, overlapped>>

----------------------------------------------------------------------------
(* The leaderboard specification *)

Metadatas == {"m"}
EmptyMap == [x \in {} |-> 0]

ScoreIdle == /\ scoreIn = <<>>
             /\ scoreOut = <<>>
AimIdle == /\ aim = <<>>
           /\ shot = <<>>
           /\ aimCall = "none"
\* no request has been made: seq counts the requests received
IdleSubmit == [pc |-> "idle", seq |-> 0, userId |-> None,
               score |-> [type |-> "undefined", nan |-> FALSE, num |-> 0],
               topLimit |-> 0, status |-> 0, message |-> "",
               top |-> <<>>, callerRank |-> None]
SubmitIdle == submit = IdleSubmit
CompIdle == /\ ScoreIdle
            /\ AimIdle
            /\ SubmitIdle
            /\ cin = <<0, 0, 0, 0>>
            /\ cout = <<>>

InitLB ==
  /\ meta = EmptyMap
  /\ zset = EmptyMap
  /\ now = 1
  /\ upsert = [p \in Slots |-> IdleUpsert]
  /\ fetch = IdleFetch
  /\ rankq = IdleRank
  /\ nCalls = 0
  /\ submitted = [u \in Users |-> {}]
  /\ overlapped = [u \in Users |-> FALSE]

UpsertNext(S) ==
  \/ \E p \in S, u \in Users, s \in Scores, md \in Metadatas : UpsertStart(p, u, s, md)
  \/ \E p \in S : UpsertHGet(p)
  \/ \E p \in S, t \in Times : UpsertResume(p, t)
  \/ \E p \in S : UpsertHSet(p)
  \/ \E p \in S : UpsertZAdd(p)

FetchNext ==
  \/ \E limit \in 0..MaxLimit : FetchStart(limit)
  \/ FetchZRange
  \/ FetchHMGet

RankNext ==
  \/ \E u \in Users : RankStart(u)
  \/ RankZRank
  \/ RankZCard

----------------------------------------------------------------------------
(* The game: src/client/splash/src/script.js and what it drives.           *)
(*                                                                         *)
(* Times are counted in units of 1/60 s, so that every duration of the     *)
(* code is a whole number: 1/30 s = 2, 1/20 s = 3, 0.7 s = 42, 1.1 s = 66, *)
(* 1.25 s = 75, 1.6 s = 96, 2.0 s = 120.  Radii are counted in units of    *)
(* 1/7500, so that 0.75 = 5625, 0.06 = 450, and the radius after a hold of *)
(* h units, 0.75 - 0.69 * h / 75, is the whole number 5625 - 69 * h.       *)
(* The logo's progress t (0..1) is counted in units of                     *)
(* 1 / (SHOW_DURATION * HIDE_DURATION).                                    *)
(*                                                                         *)
(* Not modelled: meshes, camera poses, particles, toasts, the HUD's text   *)
(* and OrbitControls.  The aim disc's time, centerX and centerY only move  *)
(* the mesh along sines of the time and place the sampled hit; the hit     *)
(* and its score are drawn nondeterministically when the hold is released. *)
(***************************************************************************)

MAX_DARTS_PER_ROUND == 10

\* the deltas clock.getDelta() returns: a paused clock, 1/30 s, 1/20 s
Deltas == {0, 2, 3}
PointerIds == {1, 2}

\* ---- script_helpers.js: createAimDisc ----
maxRadius == 5625
minRadius == 450
shrinkTime == 75

\* the numerator of clamp01(num / den)
clamp01(num, den) == Max({0, Min({den, num})})

createAimDisc ==
  [enabled |-> FALSE, holding |-> FALSE, holdTime |-> 0, radius |-> maxRadius]

setEnabledKeepsHold(state, enabled) == [state EXCEPT !.enabled = enabled]
setEnabled(state, enabled) ==
  IF enabled
    THEN [state EXCEPT !.enabled = TRUE]
    ELSE [state EXCEPT !.enabled = FALSE, !.holding = FALSE, !.holdTime = 0,
                       !.radius = maxRadius]

beginHoldKeepsRoaming(state) == [state EXCEPT !.holdTime = 0, !.radius = maxRadius]
beginHold(state) ==
  [state EXCEPT !.holding = TRUE, !.holdTime = 0, !.radius = maxRadius]

cancelHoldKeepsRadius(state) == [state EXCEPT !.holding = FALSE]
cancelHold(state) ==
  [state EXCEPT !.holding = FALSE, !.holdTime = 0, !.radius = maxRadius]

\* the state left by releaseAndSampleHit; the shot it returns is the
\* score result drawn by the caller
releaseAndSampleHit(state) ==
  [state EXCEPT !.holding = FALSE, !.holdTime = 0, !.radius = maxRadius]

aimUpdateNoClamp(state, delta) ==
  IF ~state.enabled THEN state
  ELSE IF ~state.holding THEN [state EXCEPT !.radius = maxRadius]
  ELSE LET holdTime == state.holdTime + delta
       IN  [state EXCEPT !.holdTime = holdTime,
                         !.radius = maxRadius + ((minRadius - maxRadius) * holdTime) \div shrinkTime]
aimUpdate(state, delta) ==
  IF ~state.enabled THEN state
  ELSE IF ~state.holding THEN [state EXCEPT !.radius = maxRadius]
  ELSE LET holdTime == state.holdTime + delta
           p == clamp01(holdTime, shrinkTime)
       IN  [state EXCEPT !.holdTime = holdTime,
                         !.radius = maxRadius + ((minRadius - maxRadius) * p) \div shrinkTime]

\* ---- logo.js ----
SHOW_DURATION == 66
HOLD_DURATION == 132
HIDE_DURATION == 42
LOGO_MAX_DELTA == 3                               \* 1 / 20 s
LogoOne == SHOW_DURATION * HIDE_DURATION          \* t = 1

logoInit ==
  [mode |-> "hidden", t |-> 0, hold |-> 0, holdForever |-> FALSE, visible |-> FALSE]

logoShow(state, holdForever) ==
  [mode |-> "showing", t |-> 0, hold |-> 0, holdForever |-> holdForever,
   visible |-> TRUE]

logoHide(state, immediate) ==
  IF immediate
    THEN [state EXCEPT !.mode = "hidden", !.t = 0, !.hold = 0, !.visible = FALSE]
  ELSE IF state.mode = "hidden" THEN state
  ELSE [state EXCEPT !.mode = "hiding", !.t = LogoOne]

logoUpdate(state, rawDelta) ==
  LET delta == Min({Max({rawDelta, 0}), LOGO_MAX_DELTA})
  IN  IF ~state.visible THEN state
      ELSE IF state.mode = "showing" THEN
        LET tt == clamp01(state.t + delta * HIDE_DURATION, LogoOne)
        IN  IF tt >= LogoOne
              THEN [state EXCEPT !.t = tt, !.mode = "holding", !.hold = 0]
              ELSE [state EXCEPT !.t = tt]
      ELSE IF state.mode = "holding" THEN
        LET hold == state.hold + delta
        IN  IF ~state.holdForever /\ hold >= HOLD_DURATION
              THEN [state EXCEPT !.hold = hold, !.mode = "hiding", !.t = LogoOne]
              ELSE [state EXCEPT !.hold = hold, !.t = LogoOne]
      ELSE IF state.mode = "hiding" THEN
        LET tt == clamp01(state.t - delta * SHOW_DURATION, LogoOne)
        IN  IF tt <= 0
              THEN [state EXCEPT !.t = tt, !.mode = "hidden", !.visible = FALSE]
              ELSE [state EXCEPT !.t = tt]
      ELSE state

\* ---- animation/cameraRig.js ----
RESET_DELAY == 120
RESET_DURATION == 60

camInit ==
  [postImpactTimer |-> 0, resetting |-> FALSE, resetTimer |-> 0,
   resetAfterLogoArmed |-> FALSE]

onThrowStart(c) ==
  [c EXCEPT !.postImpactTimer = 0, !.resetting = FALSE, !.resetTimer = 0]

setResetAfterLogoArmed(c, armed) == [c EXCEPT !.resetAfterLogoArmed = armed]

\* the rig after the call, and the resetComplete it returns
updateForImpactNeverResets(c, delta, logoVisible) == [cam |-> c, resetComplete |-> FALSE]
updateForImpact(c, delta, logoVisible) ==
  IF logoVisible
    THEN [cam |-> [c EXCEPT !.postImpactTimer = IF c.resetAfterLogoArmed THEN @ ELSE 0,
                            !.resetting = FALSE, !.resetTimer = 0],
          resetComplete |-> FALSE]
    ELSE LET c1 == [c EXCEPT !.resetAfterLogoArmed = FALSE,
                             !.postImpactTimer = @ + delta]
             c2 == IF c1.postImpactTimer >= RESET_DELAY /\ ~c1.resetting
                     THEN [c1 EXCEPT !.resetting = TRUE, !.resetTimer = 0]
                     ELSE c1
             c3 == IF c2.resetting THEN [c2 EXCEPT !.resetTimer = @ + delta] ELSE c2
             rt == Min({c3.resetTimer, RESET_DURATION})
         IN  [cam |-> c3, resetComplete |-> c3.resetting /\ rt >= RESET_DURATION]

\* ---- animation/actionManager.js ----
DART_FLIGHT_DURATION == 96
AM_MAX_DELTA == 2           \* 1 / 30 s
\* Math.exp(-wobbleTime * 6) < 0.01 from wobbleTime = 47/60 s on
WOBBLE_END == 47

amInit == [gameStarted |-> FALSE, impactLogoEnabled |-> TRUE]

newDart ==
  [elapsed |-> 0, isFlying |-> TRUE, isWobbling |-> FALSE, wobbleTime |-> 0,
   impactDone |-> FALSE, logoShown |-> FALSE, landedEventFired |-> FALSE]

isBusyWhileFlying(darts) == \E i \in 1..Len(darts) : darts[i].isFlying
isBusy(darts) ==
  \E i \in 1..Len(darts) : darts[i].isFlying \/ darts[i].impactDone = FALSE

isLogoVisible(lg) == lg.visible

\* one dart's pass through the loop of update: the dart, the logo and the
\* rig after it, and whether the dart is spliced out of activeDarts
updateDart(dart, delta, a, lg, c) ==
  LET \* FLIGHT
      elapsed == IF dart.isFlying THEN dart.elapsed + delta ELSE dart.elapsed
      t == Min({elapsed, DART_FLIGHT_DURATION})
      landed == dart.isFlying /\ t >= DART_FLIGHT_DURATION
      reveal == landed /\ a.impactLogoEnabled /\ ~dart.logoShown
      d1 == IF landed
              THEN [dart EXCEPT !.elapsed = elapsed, !.isFlying = FALSE,
                                !.isWobbling = TRUE, !.wobbleTime = 0,
                                !.landedEventFired = TRUE,
                                !.logoShown = IF reveal THEN TRUE ELSE @]
              ELSE [dart EXCEPT !.elapsed = elapsed]
      lg1 == IF reveal THEN logoShow(lg, ~a.gameStarted) ELSE lg
      \* WOBBLE
      wobbleTime == d1.wobbleTime + delta
      d2 == IF d1.isWobbling
              THEN [d1 EXCEPT !.wobbleTime = wobbleTime,
                              !.isWobbling = ~(wobbleTime >= WOBBLE_END)]
              ELSE d1
      \* IMPACT HOLD + RESET
      impact == ~d2.isFlying /\ (d2.isWobbling \/ d2.impactDone = FALSE)
      r == updateForImpact(c, delta, lg1.visible)
      done == impact /\ r.resetComplete
  IN  [dart |-> IF done THEN [d2 EXCEPT !.impactDone = TRUE] ELSE d2,
       logo |-> lg1,
       cam |-> IF impact THEN r.cam ELSE c,
       spliced |-> done]

\* actionManager.update: the logo first, then the darts (there is never
\* more than one: throw is only called when no dart is busy)
amUpdate(rawDelta) ==
  LET delta == Min({Max({rawDelta, 0}), AM_MAX_DELTA})
      lg0 == logoUpdate(logo, delta)
  IN  IF activeDarts = <<>>
        THEN /\ logo' = lg0
             /\ UNCHANGED <<cam, activeDarts>>
        ELSE LET r == updateDart(activeDarts[1], delta, am, lg0, cam)
             IN  /\ logo' = r.logo
                 /\ cam' = r.cam
                 /\ activeDarts' = IF r.spliced THEN <<>> ELSE <<r.dart>>

\* actionManager.throw
amThrow(darts, lg, c) ==
  IF \E i \in 1..Len(darts) : darts[i].isFlying
    THEN [activeDarts |-> darts, logo |-> lg, cam |-> c]
    ELSE [activeDarts |-> Append(darts, newDart),
          logo |-> logoHide(lg, TRUE),
          cam |-> onThrowStart(c)]

\* actionManager.startGame
startGame(a, lg, c) ==
  [am |-> [a EXCEPT !.gameStarted = TRUE, !.impactLogoEnabled = FALSE],
   cam |-> setResetAfterLogoArmed(c, TRUE),
   logo |-> logoHide(lg, FALSE)]

\* ---- scoring.js: results of scoreFromBoardXY ----
\* every field is optional: <<>> is undefined, <<v>> is v
T20 ==
  [points |-> Some(60), label |-> Some("T20"), wedge |-> Some(20),
   mult |-> Some(3), ring |-> Some("TRIPLE")]
DBULL ==
  [points |-> Some(50), label |-> Some("DBULL"), wedge |-> None,
   mult |-> Some(0), ring |-> Some("DBULL")]
MISS ==
  [points |-> Some(0), label |-> Some("MISS"), wedge |-> None,
   mult |-> Some(0), ring |-> Some("MISS")]
\* an argument without a numeric points or a string label
NoPoints ==
  [points |-> None, label |-> None, wedge |-> None, mult |-> None, ring |-> None]

\* what scoreHitAtBoardLocalXY returns for the hits sampled in the game
GameResults == {T20, DBULL}
\* the arguments registerThrowScore is called with directly
AnyResults == {T20, MISS, NoPoints}

\* ---- script.js: the round ----
\* typeof scoreResult?.points === "number" ? scoreResult.points : 0
throwPointsPlusOne(scoreResult) ==
  IF IsSome(scoreResult.points) THEN Val(scoreResult.points) ELSE 1
throwPoints(scoreResult) ==
  IF IsSome(scoreResult.points) THEN Val(scoreResult.points) ELSE 0

throwLabel(scoreResult) ==
  IF IsSome(scoreResult.label) THEN Val(scoreResult.label) ELSE "MISS"

throwRecord(scoreResult) ==
  [label |-> throwLabel(scoreResult), points |-> throwPoints(scoreResult),
   ring |-> scoreResult.ring, mult |-> scoreResult.mult, wedge |-> scoreResult.wedge]

\* dartsThrown >= MAX_DARTS_PER_ROUND
finalDartPastMax(n) == n > MAX_DARTS_PER_ROUND
finalDart(n) == n >= MAX_DARTS_PER_ROUND

resetRoundKeepsScore ==
  /\ dartsThrown' = 0
  /\ totalScore' = totalScore
  /\ throwHistory' = <<>>
  /\ roundActive' = TRUE
resetRound ==
  /\ dartsThrown' = 0
  /\ totalScore' = 0
  /\ throwHistory' = <<>>
  /\ roundActive' = TRUE

\* endRound's effect on the aim disc
endRoundAim(disc) ==
  IF IsSome(disc) THEN Some(cancelHold(setEnabled(Val(disc), FALSE))) ELSE disc

\* registerThrowScore, endRound included; disc is the aim disc at the call
registerThrowScore(scoreResult, disc) ==
  /\ dartsThrown' = dartsThrown + 1
  /\ totalScore' = totalScore + throwPoints(scoreResult)
  /\ throwHistory' = Append(throwHistory, throwRecord(scoreResult))
  /\ lastScoreResult' = Some(scoreResult)
  /\ IF finalDart(dartsThrown + 1)
       THEN /\ roundActive' = FALSE
            /\ aimDisc' = endRoundAim(disc)
            /\ roundEndShown' = TRUE
       ELSE /\ aimDisc' = disc
            /\ UNCHANGED <<roundActive, roundEndShown>>

\* ---- script.js: the handlers ----
\* the GLTF model has loaded: syncBoardToWall
SyncBoardToWall ==
  /\ introTimer = "unset"
  /\ aimDisc' = IF IsSome(aimDisc) THEN aimDisc ELSE Some(createAimDisc)
  /\ introTimer' = "pending"
  /\ UNCHANGED <<gameStarted, roundActive, dartsThrown, totalScore, throwHistory,
                 isHoldingAim, holdPointerId, activeDarts, am, logo, cam,
                 startShown, roundEndShown, lastScoreResult>>

\* the 500 ms timer set by syncBoardToWall fires: the intro throw
IntroThrow ==
  /\ introTimer = "pending"
  /\ introTimer' = "fired"
  /\ LET r == amThrow(activeDarts, logo, cam)
     IN  /\ activeDarts' = r.activeDarts
         /\ logo' = r.logo
         /\ cam' = r.cam
  /\ UNCHANGED <<gameStarted, roundActive, dartsThrown, totalScore, throwHistory,
                 isHoldingAim, holdPointerId, aimDisc, am, startShown,
                 roundEndShown, lastScoreResult>>

\* a click on the Start button, which can be clicked while it is displayed
StartClick ==
  /\ startShown
  /\ ~gameStarted
  /\ gameStarted' = TRUE
  /\ startShown' = FALSE
  /\ LET r == startGame(am, logo, cam)
     IN  /\ am' = r.am
         /\ logo' = r.logo
         /\ cam' = r.cam
  /\ resetRound
  /\ aimDisc' = IF IsSome(aimDisc) THEN Some(setEnabled(Val(aimDisc), TRUE)) ELSE aimDisc
  /\ UNCHANGED <<isHoldingAim, holdPointerId, activeDarts, roundEndShown,
                 introTimer, lastScoreResult>>

onAimPointerDown(pointerId) ==
  /\ gameStarted
  /\ roundActive
  /\ IsSome(aimDisc)
  /\ ~isBusy(activeDarts)
  /\ ~isHoldingAim
  /\ isHoldingAim' = TRUE
  /\ holdPointerId' = Some(pointerId)
  /\ aimDisc' = Some(beginHold(Val(aimDisc)))
  /\ UNCHANGED <<gameStarted, roundActive, dartsThrown, totalScore, throwHistory,
                 activeDarts, am, logo, cam, startShown, roundEndShown,
                 introTimer, lastScoreResult>>

\* ev.pointerId !== holdPointerId returns: the event is of the holding pointer
isAnyPointer(pointerId) == pointerId \in PointerIds
isHoldPointer(pointerId) == holdPointerId = Some(pointerId)

\* scoreResult is the score of the hit releaseAndSampleHit samples
onAimPointerUp(pointerId, scoreResult) ==
  /\ gameStarted
  /\ roundActive
  /\ IsSome(aimDisc)
  /\ isHoldingAim
  /\ isHoldPointer(pointerId)
  /\ isHoldingAim' = FALSE
  /\ holdPointerId' = None
  /\ IF isBusy(activeDarts)
       THEN /\ aimDisc' = Some(cancelHold(Val(aimDisc)))
            /\ UNCHANGED <<roundActive, dartsThrown, totalScore, throwHistory,
                           activeDarts, logo, cam, roundEndShown, lastScoreResult>>
       ELSE /\ registerThrowScore(scoreResult,
                    Some(setEnabled(releaseAndSampleHit(Val(aimDisc)), FALSE)))
            /\ LET r == amThrow(activeDarts, logo, cam)
               IN  /\ activeDarts' = r.activeDarts
                   /\ logo' = r.logo
                   /\ cam' = r.cam
  /\ UNCHANGED <<gameStarted, am, startShown, introTimer>>

\* pointercancel and pointerleave
onAimPointerCancel(pointerId) ==
  /\ isHoldingAim
  /\ isHoldPointer(pointerId)
  /\ isHoldingAim' = FALSE
  /\ holdPointerId' = None
  /\ aimDisc' = IF IsSome(aimDisc) THEN Some(cancelHold(Val(aimDisc))) ELSE aimDisc
  /\ UNCHANGED <<gameStarted, roundActive, dartsThrown, totalScore, throwHistory,
                 activeDarts, am, logo, cam, startShown, roundEndShown,
                 introTimer, lastScoreResult>>

\* one frame of the render loop
animate(delta) ==
  /\ amUpdate(delta)
  /\ startShown' = IF ~gameStarted /\ isLogoVisible(logo') THEN TRUE ELSE startShown
  /\ aimDisc' =
       IF IsSome(aimDisc)
         THEN LET busy == isBusy(activeDarts')
                  shouldEnable == gameStarted /\ roundActive /\ ~busy
                  disc == IF ~isHoldingAim
                            THEN setEnabled(Val(aimDisc), shouldEnable)
                            ELSE Val(aimDisc)
              IN  Some(aimUpdate(disc, delta))
         ELSE aimDisc
  \* the counters that only grow are cut off at their bounds
  /\ IsSome(aimDisc') => Val(aimDisc').holdTime <= MaxHoldTime
  /\ logo'.hold <= MaxLogoHold
  /\ UNCHANGED <<gameStarted, roundActive, dartsThrown, totalScore, throwHistory,
                 isHoldingAim, holdPointerId, am, roundEndShown, introTimer,
                 lastScoreResult>>

\* hud.js: a click on Play Again, in the round-end panel
PlayAgainClick ==
  /\ roundEndShown
  /\ roundEndShown' = FALSE
  /\ resetRound
  /\ UNCHANGED <<gameStarted, isHoldingAim, holdPointerId, aimDisc, activeDarts,
                 am, logo, cam, startShown, introTimer, lastScoreResult>>

\* hud.js: a click on Close or on the backdrop of the round-end panel
CloseRoundEnd ==
  /\ roundEndShown
  /\ roundEndShown' = FALSE
  /\ UNCHANGED <<gameStarted, roundActive, dartsThrown, totalScore, throwHistory,
                 isHoldingAim, holdPointerId, aimDisc, activeDarts, am, logo,
                 cam, startShown, introTimer, lastScoreResult>>

\* the page after script.js has run, before the model has loaded
GameIdle ==
  /\ gameStarted = FALSE
  /\ roundActive = FALSE
  /\ dartsThrown = 0
  /\ totalScore = 0
  /\ throwHistory = <<>>
  /\ isHoldingAim = FALSE
  /\ holdPointerId = None
  /\ aimDisc = None
  /\ activeDarts = <<>>
  /\ am = amInit
  /\ logo = logoInit
  /\ cam = camInit
  /\ startShown = FALSE
  /\ roundEndShown = FALSE
  /\ introTimer = "unset"
  /\ lastScoreResult = None

\* concurrent upsertScore calls
Init == InitLB /\ CompIdle /\ GameIdle
Next == UpsertNext(Slots) /\ UNCHANGED <<compVars, gameVars>>
Spec == Init /\ [][Next]_vars

\* fetchTopN racing with the upsertScore calls of one caller
NextFetch == (UpsertNext({1}) \/ FetchNext) /\ UNCHANGED <<compVars, gameVars>>
SpecFetch == Init /\ [][NextFetch]_vars

\* getRankForUser racing with the upsertScore calls of one caller
NextRank == (UpsertNext({1}) \/ RankNext) /\ UNCHANGED <<compVars, gameVars>>
SpecRank == Init /\ [][NextRank]_vars

----------------------------------------------------------------------------
(* POST /api/leaderboard/submit, src/server/index.ts lines 103-155 *)

\* a string is the sequence of its characters: 0 is a space, and a userId
\* of Users is the one-character string of its number
RECURSIVE trimStart(_)
trimStart(str) == IF str # <<>> /\ Head(str) = 0 THEN trimStart(Tail(str)) ELSE str
RECURSIVE trimEnd(_)
trimEnd(str) ==
  IF str # <<>> /\ str[Len(str)] = 0 THEN trimEnd(SubSeq(str, 1, Len(str) - 1)) ELSE str
trim(str) == trimEnd(trimStart(str))
memberOf(str) == str[1]

\* req.body.userId: undefined, "", " ", "  ", or the name of a user
BodyUserIds == {None, Some(<<>>), Some(<<0>>), Some(<<0, 0>>)} \cup {Some(<<u>>) : u \in Users}

\* req.body.score: a JavaScript value by its typeof; a number is NaN, Infinity
\* (the body 1e999) or a score of Scores
jsNumber(n) == [type |-> "number", nan |-> FALSE, num |-> n]
jsNaN == [type |-> "number", nan |-> TRUE, num |-> 0]
jsOther(type) == [type |-> type, nan |-> FALSE, num |-> 0]
BodyScores == {jsNumber(n) : n \in Scores \cup {Infinity}}
              \cup {jsNaN, jsOther("string"), jsOther("undefined")}
\* req.body.limit
BodyLimits == {None, Some(0), Some(1)}

\* line 118: !userId?.trim()
userIdRejected(userId) == ~IsSome(userId) \/ trim(Val(userId)) = <<>>
\* line 125: typeof score !== 'number' || Number.isNaN(score)
scoreRejected(score) == score.type # "number" \/ score.nan
\* line 133: Math.max(1, Math.min(limit ?? 10, 100))
topLimitOf(limit) == Max({1, Min({IF IsSome(limit) THEN Val(limit) ELSE 10, 100})})

errorResponse(received, message) ==
  [received EXCEPT !.pc = "responded", !.status = 400, !.message = message]

\* lines 107-135: the request is received and validated; a valid one calls
\* upsertScore, whose hGet is then in flight.  One request is handled at a
\* time, and the store's commands do not fail.
SubmitRequest(postId, userId, score, limit) ==
  /\ submit.pc \in {"idle", "responded"}
  /\ submit.seq < MaxRequests
  /\ LET received == [IdleSubmit EXCEPT !.seq = submit.seq + 1, !.userId = userId,
                                        !.score = score]
     IN  IF ~postId
         THEN /\ submit' = errorResponse(received, "postId is required")
              /\ UNCHANGED lbVars
         ELSE IF userIdRejected(userId)
         THEN /\ submit' = errorResponse(received, "userId is required")
              /\ UNCHANGED lbVars
         ELSE IF scoreRejected(score)
         THEN /\ submit' = errorResponse(received, "score must be a number")
              /\ UNCHANGED lbVars
         ELSE /\ submit' = [received EXCEPT !.pc = "upsert", !.topLimit = topLimitOf(limit)]
              /\ UpsertStart(1, memberOf(Val(userId)), score.num, "m")
  /\ UNCHANGED <<cin, cout, scoreVars, aimVars, gameVars>>

\* lines 136-140: upsertScore has resolved; fetchTopN sends its zRange and
\* getRankForUser its zRank and zCard (Promise.all)
SubmitAfterUpsert ==
  /\ submit.pc = "upsert"
  /\ upsert[1].pc = "idle"
  /\ submit' = [submit EXCEPT !.pc = "reads"]
  /\ fetch' = [IdleFetch EXCEPT !.pc = "zRange", !.limit = submit.topLimit]
  /\ rankq' = [IdleRank EXCEPT !.pc = "reads", !.userId = memberOf(Val(submit.userId)),
                               !.pending = {"zRank", "zCard"}]
  /\ UNCHANGED <<meta, zset, now, upsert, nCalls, submitted, overlapped>>
  /\ UNCHANGED <<cin, cout, scoreVars, aimVars, gameVars>>

\* lines 142-147: res.json({type, postId, top, callerRank})
SubmitRespond ==
  /\ submit.pc = "reads"
  /\ fetch.returned
  /\ rankq.returned
  /\ submit' = [submit EXCEPT !.pc = "responded", !.status = 200, !.top = fetch.ret,
                              !.callerRank = rankq.ret]
  /\ UNCHANGED <<lbVars, cin, cout, scoreVars, aimVars, gameVars>>

\* the store answering the commands of the request's calls
SubmitStore ==
  /\ \/ UpsertHGet(1)
     \/ \E t \in Times : UpsertResume(1, t)
     \/ UpsertHSet(1)
     \/ UpsertZAdd(1)
     \/ FetchZRange
     \/ FetchHMGet
     \/ RankZRank
     \/ RankZCard
  /\ UNCHANGED <<compVars, gameVars>>

NextSubmit ==
  \/ \E postId \in BOOLEAN, userId \in BodyUserIds, score \in BodyScores, limit \in BodyLimits :
       SubmitRequest(postId, userId, score, limit)
  \/ SubmitStore
  \/ SubmitAfterUpsert
  \/ SubmitRespond
SpecSubmit == Init /\ [][NextSubmit]_vars

----------------------------------------------------------------------------
(* fetchTopN on a store whose metadata is missing or does not parse *)

\* a hash value that JSON.parse rejects
corruptValue == [json |-> FALSE, score |-> 0, submittedAt |-> 0, metadata |-> ""]
\* the values of the metadata hash: records as upsertScore writes them, and
\* corrupt ones
StoredValues ==
  {encodeMetadata([score |-> sc, submittedAt |-> t, metadata |-> "m"]) :
     sc \in Scores, t \in Times} \cup {corruptValue}
\* the scores of the sorted set's members
StoredComposites == {toCompositeScore(sc, t) : sc \in Scores, t \in Times}

\* any store: the members and the users with metadata are independent
InitStored ==
  /\ \E S \in SUBSET Users : meta \in [S -> StoredValues]
  /\ \E S \in SUBSET Users : zset \in [S -> StoredComposites]
  /\ now = MaxNow
  /\ upsert = [p \in Slots |-> IdleUpsert]
  /\ fetch = IdleFetch
  /\ rankq = IdleRank
  /\ nCalls = 0
  /\ submitted = [u \in Users |-> {}]
  /\ overlapped = [u \in Users |-> FALSE]
  /\ CompIdle
  /\ GameIdle

NextStored == FetchNext /\ UNCHANGED <<compVars, gameVars>>
SpecStored == InitStored /\ [][NextStored]_vars

----------------------------------------------------------------------------
(* toCompositeScore as a pure function *)

CompScores == (0 - MaxCompScore)..MaxCompScore
\* submission times (in units of 10^9 ms): the epoch, times around
\* SCORE_MULTIPLIER, and a Date.now() of late 2025
CompTimes == {0, 1, SCORE_MULTIPLIER - 1, SCORE_MULTIPLIER, SCORE_MULTIPLIER + 1,
              SCORE_MULTIPLIER + 760}

InitComposite ==
  /\ cin \in CompScores \X CompTimes \X CompScores \X CompTimes
  /\ cout = <<>>
  /\ ScoreIdle
  /\ AimIdle
  /\ SubmitIdle
  /\ InitLB
  /\ GameIdle

Compute ==
  /\ cout = <<>>
  /\ cout' = <<toCompositeScore(cin[1], cin[2]), toCompositeScore(cin[3], cin[4])>>
  /\ UNCHANGED <<cin, scoreVars, aimVars, submit, lbVars, gameVars>>

NextComposite == Compute
SpecComposite == InitComposite /\ [][NextComposite]_vars

----------------------------------------------------------------------------
(* The game's events *)

NextGame ==
  /\ \/ SyncBoardToWall
     \/ IntroThrow
     \/ StartClick
     \/ \E pointerId \in PointerIds : onAimPointerDown(pointerId)
     \/ \E pointerId \in PointerIds, scoreResult \in GameResults :
          onAimPointerUp(pointerId, scoreResult)
     \/ \E pointerId \in PointerIds : onAimPointerCancel(pointerId)
     \/ \E delta \in Deltas : animate(delta)
     \/ PlayAgainClick
     \/ CloseRoundEnd
  /\ UNCHANGED <<lbVars, compVars>>
SpecGame == Init /\ [][NextGame]_vars

\* requestAnimationFrame keeps calling animate, and the clock advances
\* between the frames
Frame ==
  /\ \E delta \in Deltas \ {0} : animate(delta)
  /\ UNCHANGED <<lbVars, compVars>>
\* the game with one pointer and every hit a T20: the throws differ in
\* their timing only
NextGameFrames ==
  /\ \/ SyncBoardToWall
     \/ IntroThrow
     \/ StartClick
     \/ onAimPointerDown(1)
     \/ onAimPointerUp(1, T20)
     \/ onAimPointerCancel(1)
     \/ \E delta \in Deltas : animate(delta)
     \/ PlayAgainClick
     \/ CloseRoundEnd
  /\ UNCHANGED <<lbVars, compVars>>
SpecGameFrames == Init /\ [][NextGameFrames]_vars /\ WF_vars(Frame)

\* The round's two functions called directly, in every order their
\* contract allows: resetRound at any time, registerThrowScore while the
\* round is active, with any argument.
ResetRoundCall ==
  /\ resetRound
  /\ UNCHANGED <<gameStarted, isHoldingAim, holdPointerId, aimDisc, activeDarts,
                 am, logo, cam, startShown, roundEndShown, introTimer,
                 lastScoreResult>>

RegisterThrowCall(scoreResult) ==
  /\ roundActive
  /\ registerThrowScore(scoreResult, aimDisc)
  /\ UNCHANGED <<gameStarted, isHoldingAim, holdPointerId, activeDarts, am, logo,
                 cam, startShown, introTimer>>

NextRound ==
  /\ \/ ResetRoundCall
     \/ \E scoreResult \in AnyResults : RegisterThrowCall(scoreResult)
  /\ UNCHANGED <<lbVars, compVars>>
SpecRound == Init /\ [][NextRound]_vars

\* registerThrowScore called whatever the round's state: the function has
\* no guard of its own
RegisterThrowAnyCall(scoreResult) ==
  /\ dartsThrown < MAX_DARTS_PER_ROUND + MaxExtraThrows
  /\ registerThrowScore(scoreResult, aimDisc)
  /\ UNCHANGED <<gameStarted, isHoldingAim, holdPointerId, activeDarts, am, logo,
                 cam, startShown, introTimer>>

NextRoundAny ==
  /\ \/ ResetRoundCall
     \/ \E scoreResult \in GameResults : RegisterThrowAnyCall(scoreResult)
  /\ UNCHANGED <<lbVars, compVars>>
SpecRoundAny == Init /\ [][NextRoundAny]_vars

\* endRound, lines 116-130: the round's counters are not written
endRoundRestartsRound ==
  /\ roundActive' = TRUE
  /\ aimDisc' = endRoundAim(aimDisc)
  /\ roundEndShown' = TRUE
  /\ UNCHANGED <<dartsThrown, totalScore, throwHistory>>
endRound ==
  /\ roundActive' = FALSE
  /\ aimDisc' = endRoundAim(aimDisc)
  /\ roundEndShown' = TRUE
  /\ UNCHANGED <<dartsThrown, totalScore, throwHistory>>

\* the argument of roundHud.showRoundEnd, lines 126-129
roundSummary(total, history) ==
  [totalScore |-> total,
   throws |-> [i \in 1..Len(history) |->
                 [label |-> history[i].label, points |-> history[i].points]]]

\* endRound called directly, at any time
EndRoundCall ==
  /\ endRound
  /\ UNCHANGED <<gameStarted, isHoldingAim, holdPointerId, activeDarts, am, logo,
                 cam, startShown, introTimer, lastScoreResult>>

NextEndRound ==
  /\ \/ ResetRoundCall
     \/ \E scoreResult \in GameResults : RegisterThrowCall(scoreResult)
     \/ EndRoundCall
  /\ UNCHANGED <<lbVars, compVars>>
SpecEndRound == Init /\ [][NextEndRound]_vars

----------------------------------------------------------------------------
(* The aim disc called directly: createAimDisc of script_helpers.js with   *)
(* the centre of the disc and the sampled hit.                             *)
(*                                                                         *)
(* The disc's radius stays in units of 1/7500.  The centre's distance from *)
(* the board's origin, boardRadius, the margin and the floor of the limit  *)
(* are counted in units of 1/15000, so that 0.001 is the whole number 15:  *)
(* 2.05 = 30750, 0.02 = 300, and a radius r is 2 * r of these units.       *)
(* A point is given by its distance len from the origin and its direction  *)
(* dir in degrees: (len cos dir, len sin dir), whose Math.hypot is len.    *)
(* The roaming target, a sum of sines of the disc's time, is drawn         *)
(* nondeterministically from the square it ranges over.                    *)
(***************************************************************************)

DEFAULT_BOARD_RADIUS == 30750
margin == 300
MIN_LIMIT == 15

\* boardRadius - maxRadius - margin is 0.53 on the default board, and
\* 7/15000 on a board of radius 0.77 + 7/15000
AimBoardRadii == {DEFAULT_BOARD_RADIUS, 2 * maxRadius + margin + 7}

\* x and y of the roaming target lie within base = 0.82 * boardRadius
AimTargets ==
  {[len |-> 0, dir |-> 0]} \cup
  [len : {7, 15, 16, 7949, 7950, 7951, 25215}, dir : {0, 120}]

\* delta of update; the game's clock gives the non-negative ones
AimDeltas == {-15, 0, 15, 40}
SampleAngles == {0, 120}

\* clampCenterForRadius(x, y, r) on the board of radius boardRadius
clampCenterNoClamp(target, r, boardRadius) == target
clampCenterForRadius(target, r, boardRadius) ==
  LET limit == Max({MIN_LIMIT, boardRadius - 2 * r - margin})
  IN  IF target.len > limit
        THEN \* x * s, y * s with s = limit / len
             [target EXCEPT !.len = limit]
        ELSE target

\* createAimDisc(board, opts): the state with centerX, centerY and the
\* board's radius
createAimDiscOn(boardRadius) ==
  [enabled |-> createAimDisc.enabled, holding |-> createAimDisc.holding,
   holdTime |-> createAimDisc.holdTime, radius |-> createAimDisc.radius,
   center |-> [len |-> 0, dir |-> 0], boardRadius |-> boardRadius]

\* update(delta) with the centre; target is the point of the roaming path
\* at the disc's time
updateRoamsWhileHolding(state, delta, target) ==
  LET s == aimUpdate(state, delta)
  IN  IF state.enabled
        THEN [s EXCEPT !.center = clampCenterForRadius(target, maxRadius, state.boardRadius)]
        ELSE s
updateWithCenter(state, delta, target) ==
  LET s == aimUpdate(state, delta)
  IN  IF state.enabled /\ ~state.holding
        THEN [s EXCEPT !.center = clampCenterForRadius(target, maxRadius, state.boardRadius)]
        ELSE s

\* what releaseAndSampleHit returns: Math.sqrt(Math.random()) = q / SampleGrid,
\* so the hit lies q * finalRadius / SampleGrid from the centre, in the
\* direction angle; offset is SampleGrid times that distance
sampledHitAtMaxRadius(state, q, angle) ==
  [center |-> state.center, radius |-> state.radius,
   offset |-> q * maxRadius, angle |-> angle]
sampledHit(state, q, angle) ==
  LET finalRadius == state.radius
  IN  [center |-> state.center, radius |-> finalRadius,
       offset |-> q * finalRadius, angle |-> angle]

CreateAim ==
  /\ aim = <<>>
  /\ \E boardRadius \in AimBoardRadii : aim' = Some(createAimDiscOn(boardRadius))
  /\ shot' = <<>>
  /\ aimCall' = "createAimDisc"

AimSetEnabled(enabled) ==
  /\ IsSome(aim)
  /\ aim' = Some(setEnabled(Val(aim), enabled))
  /\ shot' = <<>>
  /\ aimCall' = IF enabled THEN "setEnabled(true)" ELSE "setEnabled(false)"

AimBeginHold ==
  /\ IsSome(aim)
  /\ aim' = Some(beginHold(Val(aim)))
  /\ shot' = <<>>
  /\ aimCall' = "beginHold"

AimCancelHold ==
  /\ IsSome(aim)
  /\ aim' = Some(cancelHold(Val(aim)))
  /\ shot' = <<>>
  /\ aimCall' = "cancelHold"

AimRelease ==
  /\ IsSome(aim)
  /\ \E q \in 0..(SampleGrid - 1) : \E angle \in SampleAngles :
       shot' = Some(sampledHit(Val(aim), q, IF q = 0 THEN 0 ELSE angle))
  /\ aim' = Some(releaseAndSampleHit(Val(aim)))
  /\ aimCall' = "releaseAndSampleHit"

AimUpdate ==
  /\ IsSome(aim)
  /\ \E delta \in AimDeltas : \E target \in AimTargets :
       /\ aim' = Some(updateWithCenter(Val(aim), delta, target))
       \* the hold time is cut off at its bounds
       /\ Val(aim').holdTime <= MaxAimHold
       /\ Val(aim').holdTime >= 0 - MaxAimHold
  /\ shot' = <<>>
  /\ aimCall' = "update"

NextAim ==
  /\ \/ CreateAim
     \/ \E enabled \in BOOLEAN : AimSetEnabled(enabled)
     \/ AimBeginHold
     \/ AimCancelHold
     \/ AimRelease
     \/ AimUpdate
  /\ UNCHANGED <<cin, cout, scoreVars, submit, lbVars, gameVars>>
SpecAim == Init /\ [][NextAim]_vars

----------------------------------------------------------------------------
(* The scoring engine: src/client/splash/src/scoring.js with the config of *)
(* src/client/splash/src/board.js.                                         *)
(*                                                                         *)
(* Ratios (rNorm, the ring ratios, the tolerance) are counted in units of  *)
(* 1/4800, so that the default board's 445/480, 275/480, 310/480, 70/480,  *)
(* 32/480 and 0.01 are the whole numbers 4450, 2750, 3100, 700, 320, 48.   *)
(* Lengths (the hit's radius, boardRadius) are counted in units of         *)
(* 1/96000, so that boardRadius = 2.05 is 196800.  Angles are counted in   *)
(* degrees: 2 pi = 360, wedgeAngle = 2 pi / 20 = 18.  A hit (x, y) is      *)
(* given by its radius r and its angle theta, -180 < theta <= 180:         *)
(* x = r cos theta, y = r sin theta, so Math.sqrt(x * x + y * y) = r and   *)
(* Math.atan2(y, x) = theta (0 at the centre).  The hits drawn lie on the  *)
(* grid on which r / boardRadius is a whole number of ratio units.         *)
(***************************************************************************)

RatioOne == 4800
LengthOne == 20 * RatioOne
TWO_PI == 360

\* board.js
DARTBOARD_NUMBERS ==
  <<20, 1, 18, 4, 13, 6, 10, 15, 2, 17, 3, 19, 7, 16, 8, 11, 14, 9, 12, 5>>

defaultRingRatios ==
  [outer |-> 4800, doubleInner |-> 4450, doubleOuter |-> 4800,
   tripleInner |-> 2750, tripleOuter |-> 3100, bullOuter |-> 700,
   dbullOuter |-> 320]

\* a ratio of the config is <<v>>, or <<>> when the field is undefined or
\* not a number: rr.f + eps is then NaN and every comparison with it false
present(ratios) == [f \in DOMAIN ratios |-> Some(ratios[f])]
above(rNorm, ratio, eps) == IsSome(ratio) /\ rNorm > Val(ratio) + eps
atMost(rNorm, ratio, eps) == IsSome(ratio) /\ rNorm <= Val(ratio) + eps
atLeast(rNorm, ratio, eps) == IsSome(ratio) /\ rNorm >= Val(ratio) - eps

\* group.userData.scoring with boardRadius, as scoreHitAtBoardLocalXY
\* passes it; an absent field is <<>>
defaultConfig ==
  [wedgeAngle |-> Some(18), startAngle |-> Some(90), direction |-> "cw",
   angleOffset |-> Some(0), numbers |-> Some(DARTBOARD_NUMBERS),
   ringRatios |-> Some(present(defaultRingRatios)), ringEpsN |-> Some(48),
   points |-> Some([bull |-> Some(25), dbull |-> Some(50)]),
   boardRadius |-> Some(196800)]

\* a % m of JavaScript: the sign of the dividend
jsMod(a, m) == IF a >= 0 THEN a % m ELSE 0 - ((0 - a) % m)

normAngle0To2Pi(a) ==
  LET x == jsMod(a, TWO_PI)
  IN  IF x < 0 THEN x + TWO_PI ELSE x

DEFAULT_RING_EPS == 48
getRingEpsN(scoringConfig) ==
  IF IsSome(scoringConfig.ringEpsN) /\ Val(scoringConfig.ringEpsN) >= 0
    THEN Val(scoringConfig.ringEpsN)
    ELSE DEFAULT_RING_EPS

wedgeIndexTruncated(theta, scoringConfig) ==
  LET wedgeAngle == Val(scoringConfig.wedgeAngle)
      angleOffset == IF IsSome(scoringConfig.angleOffset)
                       THEN Val(scoringConfig.angleOffset) ELSE 0
      a == normAngle0To2Pi(theta + angleOffset)
      delta == IF scoringConfig.direction = "cw"
                 THEN normAngle0To2Pi(Val(scoringConfig.startAngle) - a)
                 ELSE normAngle0To2Pi(a - Val(scoringConfig.startAngle))
  IN  (delta \div wedgeAngle) % 20
wedgeIndexNoWrap(theta, scoringConfig) ==
  LET wedgeAngle == Val(scoringConfig.wedgeAngle)
      angleOffset == IF IsSome(scoringConfig.angleOffset)
                       THEN Val(scoringConfig.angleOffset) ELSE 0
      a == normAngle0To2Pi(theta + angleOffset)
      delta == IF scoringConfig.direction = "cw"
                 THEN normAngle0To2Pi(Val(scoringConfig.startAngle) - a)
                 ELSE normAngle0To2Pi(a - Val(scoringConfig.startAngle))
  IN  (2 * delta + wedgeAngle) \div (2 * wedgeAngle)
wedgeIndexFromAngle(theta, scoringConfig) ==
  LET wedgeAngle == Val(scoringConfig.wedgeAngle)
      startAngleCenter == Val(scoringConfig.startAngle)
      direction == IF scoringConfig.direction = "cw" THEN "cw" ELSE "ccw"
      angleOffset == IF IsSome(scoringConfig.angleOffset)
                       THEN Val(scoringConfig.angleOffset) ELSE 0
      a == normAngle0To2Pi(theta + angleOffset)
      delta == IF direction = "cw"
                 THEN normAngle0To2Pi(startAngleCenter - a)
                 ELSE normAngle0To2Pi(a - startAngleCenter)
  IN  \* Math.floor((delta + wedgeAngle / 2) / wedgeAngle) % 20, doubled
      \* so that wedgeAngle / 2 needs no fraction
      ((2 * delta + wedgeAngle) \div (2 * wedgeAngle)) % 20

ringMissAtOuter(rNorm, scoringConfig) ==
  LET rr == Val(scoringConfig.ringRatios)
      eps == getRingEpsN(scoringConfig)
  IN  IF above(rNorm, rr.outer, 0) THEN [ring |-> "MISS", mult |-> 0]
      ELSE IF atMost(rNorm, rr.dbullOuter, eps) THEN [ring |-> "DBULL", mult |-> 0]
      ELSE IF atMost(rNorm, rr.bullOuter, eps) THEN [ring |-> "SBULL", mult |-> 0]
      ELSE IF atLeast(rNorm, rr.doubleInner, eps) /\ atMost(rNorm, rr.doubleOuter, eps)
        THEN [ring |-> "DOUBLE", mult |-> 2]
      ELSE IF atLeast(rNorm, rr.tripleInner, eps) /\ atMost(rNorm, rr.tripleOuter, eps)
        THEN [ring |-> "TRIPLE", mult |-> 3]
      ELSE [ring |-> "SINGLE", mult |-> 1]
ringTripleFirst(rNorm, scoringConfig) ==
  LET rr == Val(scoringConfig.ringRatios)
      eps == getRingEpsN(scoringConfig)
  IN  IF above(rNorm, rr.outer, eps) THEN [ring |-> "MISS", mult |-> 0]
      ELSE IF atMost(rNorm, rr.dbullOuter, eps) THEN [ring |-> "DBULL", mult |-> 0]
      ELSE IF atMost(rNorm, rr.bullOuter, eps) THEN [ring |-> "SBULL", mult |-> 0]
      ELSE IF atLeast(rNorm, rr.tripleInner, eps) /\ atMost(rNorm, rr.tripleOuter, eps)
        THEN [ring |-> "TRIPLE", mult |-> 3]
      ELSE IF atLeast(rNorm, rr.doubleInner, eps) /\ atMost(rNorm, rr.doubleOuter, eps)
        THEN [ring |-> "DOUBLE", mult |-> 2]
      ELSE [ring |-> "SINGLE", mult |-> 1]
ringFromRadiusRatio(rNorm, scoringConfig) ==
  LET rr == Val(scoringConfig.ringRatios)
      eps == getRingEpsN(scoringConfig)
  IN  IF above(rNorm, rr.outer, eps) THEN [ring |-> "MISS", mult |-> 0]
      ELSE IF atMost(rNorm, rr.dbullOuter, eps) THEN [ring |-> "DBULL", mult |-> 0]
      ELSE IF atMost(rNorm, rr.bullOuter, eps) THEN [ring |-> "SBULL", mult |-> 0]
      ELSE IF atLeast(rNorm, rr.doubleInner, eps) /\ atMost(rNorm, rr.doubleOuter, eps)
        THEN [ring |-> "DOUBLE", mult |-> 2]
      ELSE IF atLeast(rNorm, rr.tripleInner, eps) /\ atMost(rNorm, rr.tripleOuter, eps)
        THEN [ring |-> "TRIPLE", mult |-> 3]
      ELSE [ring |-> "SINGLE", mult |-> 1]

\* the result for a hit outside the board and for an unusable config
missResult(angle, radius, rNorm) ==
  [points |-> Some(0), label |-> Some("MISS"), wedge |-> None,
   wedgeIndex |-> None, mult |-> Some(0), ring |-> Some("MISS"),
   angle |-> angle, radius |-> radius, rNorm |-> rNorm]

bullResult(ring, points, radius, rNorm) ==
  [points |-> Some(points), label |-> Some(ring), wedge |-> None,
   wedgeIndex |-> None, mult |-> Some(0), ring |-> Some(ring),
   angle |-> 0, radius |-> radius, rNorm |-> rNorm]

\* Number(scoringConfig.points?.dbull ?? 50), Number(scoringConfig.points?.bull ?? 25)
DBULL_POINTS == 50
BULL_POINTS == 25
pointsIgnoringConfig(scoringConfig, field, default) == default
pointsOr(scoringConfig, field, default) ==
  IF IsSome(scoringConfig.points) /\ IsSome(Val(scoringConfig.points)[field])
    THEN Val(Val(scoringConfig.points)[field])
    ELSE default

labelPrefixAlwaysS(mult) == "S"
labelPrefix(mult) == IF mult = 3 THEN "T" ELSE IF mult = 2 THEN "D" ELSE "S"

\* the config passes the defensive checks
usableConfigAnyLength(config) ==
  /\ IsSome(config)
  /\ IsSome(Val(config).numbers)
  /\ IsSome(Val(config).ringRatios)
  /\ IsSome(Val(config).wedgeAngle)
  /\ IsSome(Val(config).startAngle)
usableConfig(config) ==
  /\ IsSome(config)
  /\ IsSome(Val(config).numbers)
  /\ Len(Val(Val(config).numbers)) = 20
  /\ IsSome(Val(config).ringRatios)
  /\ IsSome(Val(config).wedgeAngle)
  /\ IsSome(Val(config).startAngle)

\* scoreFromBoardXY(r cos theta, r sin theta, config)
scoreFromBoardXY(r, theta, config) ==
  IF ~usableConfig(config) THEN missResult(0, 0, 0)
  ELSE
    LET scoringConfig == Val(config)
        numbers == Val(scoringConfig.numbers)
        hasBoardRadius == IsSome(scoringConfig.boardRadius)
                            /\ Val(scoringConfig.boardRadius) > 0
        rNorm == IF hasBoardRadius
                   THEN (r * RatioOne) \div Val(scoringConfig.boardRadius)
                   ELSE (r * RatioOne) \div LengthOne
        ringInfo == ringFromRadiusRatio(rNorm, scoringConfig)
    IN  IF ringInfo.ring = "DBULL"
          THEN bullResult("DBULL", pointsOr(scoringConfig, "dbull", DBULL_POINTS), r, rNorm)
        ELSE IF ringInfo.ring = "SBULL"
          THEN bullResult("SBULL", pointsOr(scoringConfig, "bull", BULL_POINTS), r, rNorm)
        ELSE IF ringInfo.ring = "MISS" THEN missResult(0, r, rNorm)
        ELSE
          LET thetaNorm == normAngle0To2Pi(theta)
              idx == wedgeIndexFromAngle(thetaNorm, scoringConfig)
              \* Number(numbers[idx] ?? 0)
              wedgeValue == IF idx + 1 \in DOMAIN numbers THEN numbers[idx + 1] ELSE 0
              mult == ringInfo.mult
          IN  [points |-> Some(wedgeValue * mult),
               label |-> Some(labelPrefix(mult) \o ToString(wedgeValue)),
               wedge |-> Some(wedgeValue), wedgeIndex |-> Some(idx),
               mult |-> Some(mult), ring |-> Some(ringInfo.ring),
               angle |-> thetaNorm, radius |-> r, rNorm |-> rNorm]

\* ---- the hits and the configs scored ----
\* configs that pass the defensive checks
epsUnsetConfig ==
  [defaultConfig EXCEPT !.ringEpsN = None, !.points = None,
                        !.boardRadius = None, !.angleOffset = None]
\* another numbering of the wedges: 1 to 20 in the order of the indices
COUNTING_NUMBERS ==
  <<1, 2, 3, 4, 5, 6, 7, 8, 9, 10, 11, 12, 13, 14, 15, 16, 17, 18, 19, 20>>
wideEpsConfig ==
  [defaultConfig EXCEPT !.ringEpsN = Some(700),
                        !.numbers = Some(COUNTING_NUMBERS),
                        !.points = Some([bull |-> Some(20), dbull |-> Some(40)])]
ccwConfig ==
  [defaultConfig EXCEPT !.direction = "ccw", !.startAngle = Some(0),
                        !.angleOffset = Some(5), !.ringEpsN = Some(0),
                        !.points = Some([bull |-> None, dbull |-> Some(40)])]
ccwUpConfig == [defaultConfig EXCEPT !.direction = "ccw"]
\* a tolerance of 0.875: the bull's band reaches beyond the outer rim
hugeEpsConfig == [defaultConfig EXCEPT !.ringEpsN = Some(4200)]
narrowDoubleConfig ==
  [defaultConfig EXCEPT
     !.ringRatios = Some(present([defaultRingRatios EXCEPT !.doubleOuter = 4700]))]
\* configs that pass the defensive checks with a ratio that is undefined
noOuterConfig ==
  [defaultConfig EXCEPT
     !.ringRatios = Some([present(defaultRingRatios) EXCEPT !.outer = None])]
noDbullOuterConfig ==
  [defaultConfig EXCEPT
     !.ringRatios = Some([present(defaultRingRatios) EXCEPT !.dbullOuter = None])]
PartialRatioConfigs == {Some(noOuterConfig), Some(noDbullOuterConfig)}

UsableConfigs ==
  {Some(defaultConfig), Some(epsUnsetConfig), Some(wideEpsConfig),
   Some(ccwConfig), Some(ccwUpConfig), Some(hugeEpsConfig),
   Some(narrowDoubleConfig)}

\* configs that fail them: no config, numbers missing or short, no ring
\* ratios, wedgeAngle or startAngle not a number
UnusableConfigs ==
  {None,
   Some([defaultConfig EXCEPT !.numbers = None]),
   Some([defaultConfig EXCEPT !.numbers = Some(SubSeq(DARTBOARD_NUMBERS, 1, 19))]),
   Some([defaultConfig EXCEPT !.ringRatios = None]),
   Some([defaultConfig EXCEPT !.wedgeAngle = None]),
   Some([defaultConfig EXCEPT !.startAngle = None])}

ScoreConfigs == UsableConfigs \cup PartialRatioConfigs \cup UnusableConfigs

\* the ratios at which a rule of ringFromRadiusRatio switches
ringEdges(config) ==
  LET usable == IsSome(config) /\ IsSome(Val(config).ringRatios)
      \* an absent ratio is drawn around at the default board's value
      rr == [f \in DOMAIN defaultRingRatios |->
               IF usable /\ IsSome(Val(Val(config).ringRatios)[f])
                 THEN Val(Val(Val(config).ringRatios)[f])
                 ELSE defaultRingRatios[f]]
      eps == IF usable THEN getRingEpsN(Val(config)) ELSE DEFAULT_RING_EPS
  IN  {rr.dbullOuter, rr.outer, rr.outer + eps, rr.dbullOuter + eps,
       rr.bullOuter + eps, rr.doubleInner - eps, rr.doubleOuter + eps,
       rr.tripleInner - eps, rr.tripleOuter + eps}

\* the rNorm values drawn: the centre, each edge and its two neighbours
ScoreRatios(config) ==
  {0} \cup {e + d : e \in ringEdges(config), d \in {0 - EdgeSpread, 0, EdgeSpread}}

\* the radius whose rNorm is k
radiusOf(k, config) ==
  IF IsSome(config) /\ IsSome(Val(config).boardRadius)
    THEN (k * Val(Val(config).boardRadius)) \div RatioOne
    ELSE (k * LengthOne) \div RatioOne

\* the angles drawn: the wedge centres and boundaries of a board whose
\* wedge 0 is centred on a multiple of 9 degrees, and their neighbours
ScoreAngles == {t \in -179..180 : (t + 180) % 9 \in {0, 1, 8}}

InitScoring ==
  /\ \E config \in ScoreConfigs :
       \E k \in ScoreRatios(config) :
         \E theta \in ScoreAngles :
           scoreIn = Some([r |-> radiusOf(k, config),
                           \* Math.atan2(0, 0) = 0
                           theta |-> IF k = 0 THEN 0 ELSE theta,
                           config |-> config])
  /\ scoreOut = <<>>
  /\ AimIdle
  /\ SubmitIdle
  /\ cin = <<0, 0, 0, 0>>
  /\ cout = <<>>
  /\ InitLB
  /\ GameIdle

\* scoreFromBoardXY applied to the hit
ScoreHit ==
  /\ IsSome(scoreIn)
  /\ scoreOut = <<>>
  /\ scoreOut' = Some(scoreFromBoardXY(Val(scoreIn).r, Val(scoreIn).theta,
                                       Val(scoreIn).config))
  /\ UNCHANGED <<scoreIn, aimVars, submit, cin, cout, lbVars, gameVars>>

NextScoring == ScoreHit
SpecScoring == InitScoring /\ [][NextScoring]_vars

----------------------------------------------------------------------------
(* The throw on the default board: the aim disc of createAimDisc(dartboard, *)
(* {maxRadius: 0.75, ...}) is released and the hit is scored with the       *)
(* board's config, as onAimPointerUp does.  The hits drawn lie on the line  *)
(* through the origin and the disc's centre, on either side of the centre:  *)
(* the hit farthest from the origin is among them, and their distance from  *)
(* the origin and their angle need no square root and no arc tangent.       *)
(* Distances are counted in units of 1 / (7500 * SampleGrid) here, in      *)
(* which sampledHit's offset is the hit's distance from the centre.        *)

\* the centre's distance from the origin, given in units of 1/15000
centerLen(len) == (len * SampleGrid) \div 2

\* the directions of Math.random() * 2 * PI drawn: away from the origin
\* and towards it
outward(state) == state.center.dir
inward(state) == (state.center.dir + 180) % TWO_PI

\* Math.sqrt(hitX * hitX + hitY * hitY)
hitRadius(hit) ==
  LET c == centerLen(hit.center.len)
  IN  IF hit.angle = hit.center.dir THEN c + hit.offset
      ELSE IF hit.offset > c THEN hit.offset - c ELSE c - hit.offset
\* Math.atan2(hitY, hitX), in degrees of -179..180
hitTheta(hit) ==
  LET c == centerLen(hit.center.len)
      t == IF hit.angle = hit.center.dir \/ hit.offset <= c
             THEN hit.center.dir ELSE hit.angle
  IN  IF hitRadius(hit) = 0 THEN 0 ELSE IF t > 180 THEN t - TWO_PI ELSE t

\* a distance in the scoring's unit of length, rounded down:
\* LengthOne / (7500 * SampleGrid) = 64 / (5 * SampleGrid)
toLength(d) == (d * 64) \div (5 * SampleGrid)

\* scoreIn and scoreOut hold the hit just scored and its score
ScoreForgotten == scoreIn' = <<>> /\ scoreOut' = <<>>

\* syncBoardToWall: createAimDisc(dartboard, opts) on the default board
ThrowCreate ==
  /\ aim = <<>>
  /\ aim' = Some(createAimDiscOn(DEFAULT_BOARD_RADIUS))
  /\ shot' = <<>>
  /\ aimCall' = "createAimDisc"
  /\ ScoreForgotten

\* aimDisc.releaseAndSampleHit()
ThrowRelease ==
  /\ IsSome(aim)
  /\ \E q \in 0..(SampleGrid - 1) : \E side \in {"outward", "inward"} :
       shot' = Some(sampledHit(Val(aim), q,
                               IF side = "outward" THEN outward(Val(aim))
                                                   ELSE inward(Val(aim))))
  /\ aim' = Some(releaseAndSampleHit(Val(aim)))
  /\ aimCall' = "releaseAndSampleHit"
  /\ ScoreForgotten

\* scoreHitAtBoardLocalXY(shot.hitX, shot.hitY): the radius is rounded down
\* to the scoring's unit of length
ThrowScore ==
  /\ IsSome(shot)
  /\ LET r == toLength(hitRadius(Val(shot)))
         theta == hitTheta(Val(shot))
     IN  /\ scoreIn' = Some([r |-> r, theta |-> theta, config |-> Some(defaultConfig)])
         /\ scoreOut' = Some(scoreFromBoardXY(r, theta, Some(defaultConfig)))
  /\ shot' = <<>>
  /\ aimCall' = "scoreHitAtBoardLocalXY"
  /\ UNCHANGED aim

NextThrow ==
  /\ \/ ThrowCreate
     \/ (\E enabled \in BOOLEAN : AimSetEnabled(enabled)) /\ ScoreForgotten
     \/ AimBeginHold /\ ScoreForgotten
     \/ AimCancelHold /\ ScoreForgotten
     \/ AimUpdate /\ ScoreForgotten
     \/ ThrowRelease
     \/ ThrowScore
  /\ UNCHANGED <<cin, cout, submit, lbVars, gameVars>>
SpecThrow == Init /\ [][NextThrow]_vars

----------------------------------------------------------------------------
(* Claims about the leaderboard *)

Quiet == \A p \in Slots : upsert[p].pc = "idle"

\* the score a sorted-set value encodes: the least s with s * SCORE_MULTIPLIER >= value
encodedScore(value) == 0 - ((0 - value) \div SCORE_MULTIPLIER)

\* the user's metadata record and sorted-set entry carry different scores
Disagree(u) ==
  /\ u \in DOMAIN meta
  /\ u \in DOMAIN zset
  /\ meta[u].score # encodedScore(zset[u])

\* the rank fetchTopN(postId, total) assigns to u, if it lists u
fetchRankOf(z, h, u) ==
  LET top == fetchTopN(z, h, zCard(z))
  IN  IF \E i \in 1..Len(top) : top[i].userId = u
      THEN Some((CHOOSE i \in 1..Len(top) : top[i].userId = u))
      ELSE None

C1_MaxStored ==
  \A u \in Users :
    (~overlapped[u] /\ ~InProgress(u) /\ submitted[u] # {}) =>
      /\ u \in DOMAIN meta
      /\ meta[u].score = Max(submitted[u])

C1_NoWriteStep ==
  \A p \in Slots :
    LET c == upsert[p]
        u == c.userId
    IN  (/\ c.pc \in {"hGet", "resume"}
         /\ ~overlapped[u]
         /\ u \in DOMAIN meta
         /\ meta[u].score >= c.score)
        => /\ hGet(meta', u) = hGet(meta, u)
           /\ hGet(zset', u) = hGet(zset, u)
           /\ upsert'[p].pc # "write"
           /\ (upsert'[p].pc = "idle" =>
                 upsertReturn(c) = decodeMetadata(hGet(meta, u)))

\* C1: when the upsertScore calls of a user do not overlap, a call whose score
\* is at most the stored score writes nothing (the metadata record and the
\* sorted-set entry stay as they are) and returns the stored record; and once
\* the calls are over the stored score is the highest score submitted.
C1_NonOverlappingUpsert == []C1_MaxStored /\ [][C1_NoWriteStep]_vars

\* C1 witness: a call that does not overlap another has read a stored record
\* with a higher score and is about to return it.
C1_Witness ==
  \E p \in Slots :
    /\ upsert[p].pc = "resume"
    /\ ~overlapped[upsert[p].userId]
    /\ IsSome(upsert[p].existing)
    /\ Val(upsert[p].existing).score > upsert[p].score

\* C2: the stored score of a user never decreases, whatever the interleaving
\* of upsertScore calls.
C2_ScoreNeverDecreases ==
  [][\A u \in DOMAIN meta : meta'[u].score >= meta[u].score]_vars

\* C3: the metadata record and the sorted-set entry of a user can end up with
\* different scores, and only two overlapping calls of that user make it so:
\* whenever they differ after the user's calls are over, two of the calls have
\* overlapped.
C3_DisagreeOnlyAfterOverlap ==
  \A u \in Users : (~InProgress(u) /\ Disagree(u)) => overlapped[u]

\* C3 witness: two calls were made, both by one user and overlapping, both
\* have returned, and the record and the sorted-set entry carry different scores.
C3_Witness ==
  \E u \in Users : Quiet /\ nCalls = 2 /\ overlapped[u] /\ Disagree(u)

\* the list holds the min(limit, card) members of highest value, highest first
IsTop(z, limit, top) ==
  /\ Len(top) = (IF limit < zCard(z) THEN limit ELSE zCard(z))
  /\ Len(top) <= limit
  /\ \A i \in 1..Len(top) : top[i].member \in DOMAIN z /\ top[i].score = z[top[i].member]
  /\ \A i, j \in 1..Len(top) : i < j =>
       /\ top[i].member # top[j].member
       /\ top[i].score >= top[j].score
  /\ \A m \in DOMAIN z :
       (\A i \in 1..Len(top) : top[i].member # m) =>
         \A i \in 1..Len(top) : z[m] <= top[i].score

C4_Step ==
  /\ (fetch.pc = "zRange" /\ fetch'.pc # "zRange") =>
       /\ fetch.limit >= 1
       /\ IsTop(zset, fetch.limit, fetch'.topEntries)
       /\ (fetch'.pc = "idle" => fetch'.ret = <<>> /\ zCard(zset) = 0)
  /\ (fetch.pc = "hMGet" /\ fetch'.pc = "idle") =>
       /\ Len(fetch'.ret) = Len(fetch.topEntries)
       /\ \A i \in 1..Len(fetch'.ret) :
            /\ fetch'.ret[i].userId = fetch.topEntries[i].member
            /\ fetch'.ret[i].rank = i

\* C4: fetchTopN with limit >= 1 returns at most limit entries: the members
\* of highest composite value at the time of its zRange, highest first, the
\* entry at 0-based position i carrying rank i + 1.
C4_FetchTopN == [][C4_Step]_vars

\* C4 witness: fetchTopN(postId, 1) has returned one entry of a set of two.
C4_Witness ==
  /\ fetch.pc = "idle" /\ fetch.returned
  /\ fetch.limit = 1
  /\ Len(fetch.ret) = 1
  /\ fetch.ret[1].rank = 1
  /\ zCard(zset) = 2

\* the answer read first is still what the store would answer
FirstReadCurrent ==
  /\ rankq.pending = {"zCard"} => rankq.rank = zRank(zset, rankq.userId)
  /\ rankq.pending = {"zRank"} => rankq.total = zCard(zset)

C5_Step ==
  (/\ rankq.pc = "reads"
   /\ rankq'.pc = "idle"
   /\ FirstReadCurrent)
  => /\ rankq'.ret = IF zRank(zset, rankq.userId) = None THEN None
                     ELSE Some(zCard(zset) - Val(zRank(zset, rankq.userId)))
     /\ rankq'.ret = fetchRankOf(zset, meta, rankq.userId)
     /\ (rankq'.ret = None <=> rankq.userId \notin DOMAIN zset)

\* C5: when the sorted set does not change between its two reads,
\* getRankForUser returns total - ascendingRank, the rank fetchTopN(postId,
\* total) gives the user, and null exactly when the user has no entry.
C5_RankMatchesFetch == [][C5_Step]_vars

\* C5 witness: with no call in progress, the user of the lower score has been
\* given rank 2 and the other user holds rank 1.
C5_Witness ==
  \E a, b \in DOMAIN zset :
    /\ Quiet
    /\ zset[a] < zset[b]
    /\ meta[a].score < meta[b].score
    /\ rankq.pc = "idle" /\ rankq.returned
    /\ rankq.userId = a
    /\ rankq.ret = Some(2)
    /\ getRankForUser(zset, b) = Some(1)

\* C6: every non-null result of getRankForUser is at least 1 and at most the
\* number of ranked users, also when upsertScore writes of other users fall
\* between its two reads.
C6_RankInRange ==
  (rankq.pc = "idle" /\ rankq.returned /\ IsSome(rankq.ret) /\ ~rankq.ownWrite) =>
    (1 <= Val(rankq.ret) /\ Val(rankq.ret) <= zCard(zset))

\* C7 as claimed: for integer scores s1 > s2 and any non-negative times the
\* composite of (s1, t1) is above the composite of (s2, t2).
C7_AnyTimes ==
  (cout # <<>> /\ cin[1] > cin[3]) => cout[1] > cout[2]

\* C7 amended: for integer scores s1 > s2 and non-negative times with
\* t1 - t2 < SCORE_MULTIPLIER the composite of (s1, t1) is above the composite
\* of (s2, t2).
C7_TimesWithinMultiplier ==
  (cout # <<>> /\ cin[1] > cin[3] /\ cin[2] - cin[4] < SCORE_MULTIPLIER) =>
    cout[1] > cout[2]

\* C7 witness: the higher score was submitted later, less than SCORE_MULTIPLIER
\* later, and its composite is the higher one.
C7_Witness ==
  /\ cout # <<>>
  /\ cin[1] > cin[3]
  /\ cin[2] > cin[4]
  /\ cin[2] - cin[4] = SCORE_MULTIPLIER - 1
  /\ cout[1] > cout[2]

\* C8: of two users with equal best scores the one whose best score was
\* submitted earlier has the larger composite value and the better rank, in
\* fetchTopN and in getRankForUser.
C8_EarlierRanksBetter ==
  \A u, v \in Users :
    (/\ Quiet
     /\ u \in DOMAIN meta /\ v \in DOMAIN meta
     /\ u \in DOMAIN zset /\ v \in DOMAIN zset
     /\ meta[u].score = meta[v].score
     /\ meta[u].submittedAt < meta[v].submittedAt)
    => /\ zset[u] > zset[v]
       /\ Val(getRankForUser(zset, u)) < Val(getRankForUser(zset, v))
       /\ Val(fetchRankOf(zset, meta, u)) < Val(fetchRankOf(zset, meta, v))


----------------------------------------------------------------------------
(* Claims about the round *)

\* the sum of the points of a throw history
RECURSIVE SumPoints(_)
SumPoints(history) ==
  IF history = <<>> THEN 0
  ELSE history[Len(history)].points + SumPoints(SubSeq(history, 1, Len(history) - 1))

\* C9: in every state reachable through the game's events (Start click,
\* pointer down, up, cancel and leave, frame ticks, Play Again and Close),
\* 0 <= dartsThrown <= MAX_DARTS_PER_ROUND.
C9_DartsThrownInRange ==
  /\ 0 <= dartsThrown
  /\ dartsThrown <= MAX_DARTS_PER_ROUND

\* the tenth dart of a round has been thrown and has ended the round
C9_Witness ==
  /\ gameStarted
  /\ dartsThrown = MAX_DARTS_PER_ROUND
  /\ ~roundActive
  /\ roundEndShown

\* C10, the state part: totalScore is the sum of the points of throwHistory
\* and throwHistory has exactly dartsThrown entries.
C10_TotalIsSum ==
  /\ totalScore = SumPoints(throwHistory)
  /\ Len(throwHistory) = dartsThrown

\* C10, the step part: a step that registers a throw appends exactly one
\* record to throwHistory, the record of its argument, and adds the
\* argument's points to totalScore, or 0 when the points are not a number;
\* every other step that touches the round empties it.
C10_RegisterStep ==
  \/ UNCHANGED <<dartsThrown, totalScore, throwHistory>>
  \/ /\ dartsThrown' = 0
     /\ totalScore' = 0
     /\ throwHistory' = <<>>
  \/ /\ IsSome(lastScoreResult')
     /\ LET scoreResult == Val(lastScoreResult')
            points == IF scoreResult.points = None THEN 0 ELSE scoreResult.points[1]
        IN  /\ dartsThrown' = dartsThrown + 1
            /\ totalScore' = totalScore + points
            /\ Len(throwHistory') = Len(throwHistory) + 1
            /\ SubSeq(throwHistory', 1, Len(throwHistory)) = throwHistory
            /\ throwHistory'[Len(throwHistory')].points = points

\* C10: totalScore equals the sum of the points over throwHistory, which
\* has dartsThrown entries in throw order, and each registerThrowScore adds
\* exactly its argument's points (0 when they are not a number) and
\* appends exactly one record.
C10_RoundBookkeeping == []C10_TotalIsSum /\ [][C10_RegisterStep]_vars

\* throws with points, without points and with a numeric 0 have all been
\* registered, and the total is the points of the one that scored
C10_Witness ==
  /\ dartsThrown = 3
  /\ \E i \in 1..3 : throwHistory[i] = throwRecord(NoPoints)
  /\ \E i \in 1..3 : throwHistory[i] = throwRecord(T20)
  /\ lastScoreResult = Some(MISS)
  /\ totalScore = 60


\* a step taken while the round is Complete that is not a resetRound
CompleteStep ==
  /\ dartsThrown = MAX_DARTS_PER_ROUND
  /\ ~roundActive
  /\ ~roundActive'

\* C11: once the round is Complete (dartsThrown = MAX_DARTS_PER_ROUND,
\* roundActive false) a further registerThrowScore call before resetRound
\* leaves dartsThrown, totalScore and throwHistory unchanged.
C11_NoThrowOnceComplete ==
  [][CompleteStep => UNCHANGED <<dartsThrown, totalScore, throwHistory>>]_vars

\* an eleventh throw has been registered in a round that was Complete
C11_EleventhRegistered ==
  /\ dartsThrown = MAX_DARTS_PER_ROUND + 1
  /\ Len(throwHistory) = MAX_DARTS_PER_ROUND + 1
  /\ ~roundActive


\* the aim disc is disabled and holds nothing
AimOff ==
  IsSome(aimDisc) =>
    /\ ~Val(aimDisc).enabled
    /\ ~Val(aimDisc).holding
    /\ Val(aimDisc).holdTime = 0
    /\ Val(aimDisc).radius = maxRadius

\* the step that registers the round's last dart ends the round
C12_LastDartStep ==
  (dartsThrown' = MAX_DARTS_PER_ROUND /\ dartsThrown = MAX_DARTS_PER_ROUND - 1) =>
    /\ roundActive
    /\ ~roundActive'
    /\ AimOff'
    /\ ~isHoldingAim'
    /\ roundEndShown'

\* once a round has been started, it is active exactly while darts remain
C12_ActiveWhileDartsRemain ==
  gameStarted => (roundActive <=> dartsThrown < MAX_DARTS_PER_ROUND)

\* C12: the registerThrowScore call that makes dartsThrown reach
\* MAX_DARTS_PER_ROUND runs endRound in the same step (roundActive becomes
\* false, the aim disc is disabled and its hold cancelled, the round-end
\* panel is shown), and after resetRound the round stays active as long as
\* dartsThrown < MAX_DARTS_PER_ROUND.
C12_RoundEndsWithLastDart ==
  []C12_ActiveWhileDartsRemain /\ [][C12_LastDartStep]_vars

\* the last dart has just been released: it is in flight, the round has
\* ended and the aim disc is off
C12_Witness ==
  /\ dartsThrown = MAX_DARTS_PER_ROUND
  /\ ~roundActive
  /\ IsSome(aimDisc) /\ AimOff
  /\ activeDarts # <<>>
  /\ activeDarts[1].isFlying
  /\ activeDarts[1].elapsed = 0


\* C13: resetRound called from any state (no round yet, mid-round or
\* Complete) yields dartsThrown = 0, totalScore = 0, an empty throwHistory
\* and roundActive = TRUE.  Of the two calls made on the round, the one
\* that does not append a throw is resetRound.
C13_ResetStep ==
  (Len(throwHistory') # Len(throwHistory) + 1) =>
    /\ dartsThrown' = 0
    /\ totalScore' = 0
    /\ throwHistory' = <<>>
    /\ roundActive' = TRUE
C13_HardReset == [][C13_ResetStep]_vars

\* a round in which points were scored has been reset
C13_Witness ==
  /\ lastScoreResult = Some(T20)
  /\ dartsThrown = 0
  /\ totalScore = 0
  /\ throwHistory = <<>>
  /\ roundActive

----------------------------------------------------------------------------
(* Claims about the scoring engine *)

\* every ring ratio of the config is a number
numericRatios(config) ==
  \A f \in DOMAIN Val(Val(config).ringRatios) : IsSome(Val(Val(config).ringRatios)[f])
\* a hit has been scored with a config that passes the defensive checks
\* and whose ring ratios are all numbers
Scored ==
  /\ IsSome(scoreOut)
  /\ usableConfig(Val(scoreIn).config)
  /\ numericRatios(Val(scoreIn).config)
ScoredConfig == Val(Val(scoreIn).config)
ScoredRatios ==
  [f \in DOMAIN Val(ScoredConfig.ringRatios) |-> Val(Val(ScoredConfig.ringRatios)[f])]

\* the six rules in their order: which of them rNorm satisfies
RingNames == <<"MISS", "DBULL", "SBULL", "DOUBLE", "TRIPLE", "SINGLE">>
RingMults == <<0, 0, 0, 2, 3, 1>>
ruleHolds(n, rr, eps) ==
  <<n > rr.outer + eps,
    n <= rr.dbullOuter + eps,
    n <= rr.bullOuter + eps,
    rr.doubleInner - eps <= n /\ n <= rr.doubleOuter + eps,
    rr.tripleInner - eps <= n /\ n <= rr.tripleOuter + eps,
    TRUE>>
firstRule(n, rr, eps) == Min({i \in 1..6 : ruleHolds(n, rr, eps)[i]})

\* C14: for every scored hit the ring is that of the first rule, in the
\* order MISS, DBULL, SBULL, DOUBLE, TRIPLE, SINGLE, that its rNorm
\* satisfies, the mult is that rule's 0, 0, 0, 2, 3, 1, and the ring is one
\* of the six.
C14_FirstMatchingRule ==
  Scored =>
    LET i == firstRule(Val(scoreOut).rNorm, ScoredRatios, getRingEpsN(ScoredConfig))
    IN  /\ Val(scoreOut).ring = Some(RingNames[i])
        /\ Val(scoreOut).mult = Some(RingMults[i])
        /\ \E j \in 1..6 : Val(scoreOut).ring = Some(RingNames[j])

\* a scored hit whose rNorm satisfies the DOUBLE and the TRIPLE rule both
C14_Witness ==
  /\ Scored
  /\ LET h == ruleHolds(Val(scoreOut).rNorm, ScoredRatios, getRingEpsN(ScoredConfig))
     IN  h[4] /\ h[5] /\ ~h[1] /\ ~h[2] /\ ~h[3]
  /\ Val(scoreOut).ring = Some("DOUBLE")

\* a scored hit just outside the rim of a board whose double band ends at
\* the rim: doubleOuter = outer and outer < rNorm <= outer + eps
OnRim ==
  /\ Scored
  /\ ScoredRatios.doubleOuter = ScoredRatios.outer
  /\ ScoredRatios.outer < Val(scoreOut).rNorm
  /\ Val(scoreOut).rNorm <= ScoredRatios.outer + getRingEpsN(ScoredConfig)

MissOnlyBeyondTolerance ==
  Scored /\ Val(scoreOut).ring = Some("MISS") =>
    Val(scoreOut).rNorm > ScoredRatios.outer + getRingEpsN(ScoredConfig)

configuredDbull ==
  IF ScoredConfig.points = None \/ Val(ScoredConfig.points).dbull = None
    THEN 50 ELSE Val(Val(ScoredConfig.points).dbull)
configuredBull ==
  IF ScoredConfig.points = None \/ Val(ScoredConfig.points).bull = None
    THEN 25 ELSE Val(Val(ScoredConfig.points).bull)

\* C16: every scored hit with rNorm <= dbullOuter has ring DBULL, label
\* DBULL and config.points.dbull points (50 when unset); the centre of the
\* default board scores 50.
C16_InnerBull ==
  /\ Scored /\ Val(scoreOut).rNorm <= ScoredRatios.dbullOuter =>
       /\ Val(scoreOut).ring = Some("DBULL")
       /\ Val(scoreOut).label = Some("DBULL")
       /\ Val(scoreOut).points = Some(configuredDbull)
  /\ Scored /\ Val(scoreIn).r = 0 /\ ScoredConfig = defaultConfig =>
       /\ Val(scoreOut).points = Some(50)
       /\ Val(scoreOut).label = Some("DBULL")
       /\ Val(scoreOut).ring = Some("DBULL")

\* the hit (0, 0) scored on the default board
C16_Witness ==
  /\ Scored
  /\ Val(scoreIn).r = 0
  /\ ScoredConfig = defaultConfig
  /\ Val(scoreOut).points = Some(50)

\* a hit on the edge of the inner bull of a board with its own dbull points
C16_WitnessConfigured ==
  /\ Scored
  /\ Val(scoreOut).rNorm = ScoredRatios.dbullOuter
  /\ configuredDbull # 50
  /\ Val(scoreOut).points = Some(configuredDbull)

ScoredNumbers == Val(ScoredConfig.numbers)
isPermutation(numbers) ==
  /\ Len(numbers) = 20
  /\ \A v \in 1..20 : \E i \in 1..20 : numbers[i] = v
WedgeRings == {Some("SINGLE"), Some("DOUBLE"), Some("TRIPLE")}
CentreRings == {Some("MISS"), Some("DBULL"), Some("SBULL")}

\* C17: under a config whose numbers is a permutation of 1..20, a hit
\* scored SINGLE, DOUBLE or TRIPLE has a wedgeIndex in 0..19 and the wedge
\* numbers[wedgeIndex], which is in 1..20; a hit scored MISS, DBULL or
\* SBULL has neither a wedge nor a wedgeIndex.
C17_WedgeInRange ==
  Scored /\ isPermutation(ScoredNumbers) =>
    /\ Val(scoreOut).ring \in WedgeRings =>
         /\ IsSome(Val(scoreOut).wedgeIndex)
         /\ Val(Val(scoreOut).wedgeIndex) \in 0..19
         /\ Val(scoreOut).wedge = Some(ScoredNumbers[Val(Val(scoreOut).wedgeIndex) + 1])
         /\ Val(Val(scoreOut).wedge) \in 1..20
    /\ Val(scoreOut).ring \in CentreRings =>
         /\ Val(scoreOut).wedge = None
         /\ Val(scoreOut).wedgeIndex = None

\* a hit scored in the last wedge, index 19, half a wedge before wedge 0
C17_Witness ==
  /\ Scored
  /\ isPermutation(ScoredNumbers)
  /\ Val(scoreOut).ring \in WedgeRings
  /\ Val(scoreOut).wedgeIndex = Some(19)
  /\ Val(scoreOut).wedge = Some(5)

\* S, D, T for the mults 1, 2, 3
LetterOf == <<"S", "D", "T">>

\* C18: a hit scored SINGLE, DOUBLE or TRIPLE has mult 1, 2 or 3,
\* points = wedge * mult and the label S, D or T followed by the wedge
\* number; a hit scored SBULL has config.points.bull points (25 when
\* unset) and mult 0; a MISS has 0 points and mult 0.
C18_PointsAndLabel ==
  /\ Scored /\ Val(scoreOut).ring \in WedgeRings =>
       LET wedge == Val(Val(scoreOut).wedge)
           mult == Val(Val(scoreOut).mult)
       IN  /\ mult \in 1..3
           /\ Val(scoreOut).ring = Some(<<"SINGLE", "DOUBLE", "TRIPLE">>[mult])
           /\ Val(scoreOut).points = Some(wedge * mult)
           /\ Val(scoreOut).label = Some(LetterOf[mult] \o ToString(wedge))
  /\ Scored /\ Val(scoreOut).ring = Some("SBULL") =>
       /\ Val(scoreOut).points = Some(configuredBull)
       /\ Val(scoreOut).mult = Some(0)
  /\ IsSome(scoreOut) /\ Val(scoreOut).ring = Some("MISS") =>
       /\ Val(scoreOut).points = Some(0)
       /\ Val(scoreOut).mult = Some(0)

\* the default board's treble 20, straight up in the triple band
C18_Witness ==
  /\ Scored
  /\ ScoredConfig = defaultConfig
  /\ Val(scoreIn).theta = 90
  /\ Val(scoreOut).ring = Some("TRIPLE")
  /\ Val(scoreOut).points = Some(60)
  /\ Val(scoreOut).label = Some("T20")

\* the hit's angle after the offset, and the centre of wedge k: k wedges
\* from startAngle in the configured direction
offsetAngle ==
  Val(scoreIn).theta
    + (IF ScoredConfig.angleOffset = None THEN 0 ELSE Val(ScoredConfig.angleOffset))
wedgeCentre(k) ==
  IF ScoredConfig.direction = "cw"
    THEN Val(ScoredConfig.startAngle) - k * Val(ScoredConfig.wedgeAngle)
    ELSE Val(ScoredConfig.startAngle) + k * Val(ScoredConfig.wedgeAngle)
\* the angle between two directions, 0..180 degrees
angularDistance(x, y) == Min({(x - y) % 360, (y - x) % 360})

ScoredWedge == Scored /\ Val(scoreOut).ring \in WedgeRings

\* C19: a hit less than half a wedge from the centre of wedge k has index
\* k; a hit on the centre of wedge 0 has index 0, cw and ccw; on the
\* default board up is wedge 20, right 6, down 3 and left 11.
C19_NearestWedgeCentre ==
  ScoredWedge =>
    /\ \A k \in 0..19 :
         2 * angularDistance(offsetAngle, wedgeCentre(k)) < Val(ScoredConfig.wedgeAngle)
           => Val(scoreOut).wedgeIndex = Some(k)
    /\ angularDistance(offsetAngle, Val(ScoredConfig.startAngle)) = 0
         => Val(scoreOut).wedgeIndex = Some(0)
    /\ ScoredConfig = defaultConfig =>
         /\ Val(scoreIn).theta = 90 => Val(scoreOut).wedge = Some(20)
         /\ Val(scoreIn).theta = 0 => Val(scoreOut).wedge = Some(6)
         /\ Val(scoreIn).theta = -90 => Val(scoreOut).wedge = Some(3)
         /\ Val(scoreIn).theta = 180 => Val(scoreOut).wedge = Some(11)

\* a hit 8 degrees before the centre of wedge 1, counter-clockwise: it is
\* nearer to wedge 1 than to wedge 0 and gets index 1
C19_Witness ==
  /\ ScoredWedge
  /\ ScoredConfig.direction = "ccw"
  /\ (wedgeCentre(1) - offsetAngle) % 360 = 8
  /\ Val(scoreOut).wedgeIndex = Some(1)

\* the four axes of the default board, each scored in a wedge ring
C19_WitnessUp ==
  ScoredWedge /\ ScoredConfig = defaultConfig /\ Val(scoreIn).theta = 90
    /\ Val(scoreOut).wedge = Some(20)
C19_WitnessRight ==
  ScoredWedge /\ ScoredConfig = defaultConfig /\ Val(scoreIn).theta = 0
    /\ Val(scoreOut).wedge = Some(6)
C19_WitnessDown ==
  ScoredWedge /\ ScoredConfig = defaultConfig /\ Val(scoreIn).theta = -90
    /\ Val(scoreOut).wedge = Some(3)
C19_WitnessLeft ==
  ScoredWedge /\ ScoredConfig = defaultConfig /\ Val(scoreIn).theta = 180
    /\ Val(scoreOut).wedge = Some(11)

\* the config is missing or not an object, numbers is absent or not of
\* length 20, the ring ratios are absent, or wedgeAngle or startAngle is
\* not a number
MalformedConfig(config) ==
  \/ config = None
  \/ Val(config).numbers = None
  \/ Len(Val(Val(config).numbers)) # 20
  \/ Val(config).ringRatios = None
  \/ Val(config).wedgeAngle = None
  \/ Val(config).startAngle = None

\* C20: every hit scored with a malformed config gets the MISS result:
\* label and ring MISS, 0 points, mult 0, no wedge and no wedgeIndex.
C20_MalformedConfigIsMiss ==
  IsSome(scoreOut) /\ MalformedConfig(Val(scoreIn).config) =>
    /\ Val(scoreOut).ring = Some("MISS")
    /\ Val(scoreOut).label = Some("MISS")
    /\ Val(scoreOut).points = Some(0)
    /\ Val(scoreOut).mult = Some(0)
    /\ Val(scoreOut).wedge = None
    /\ Val(scoreOut).wedgeIndex = None

\* a hit at the centre of a board whose numbers has 19 entries, scored MISS
C20_Witness ==
  /\ IsSome(scoreOut)
  /\ IsSome(Val(scoreIn).config)
  /\ IsSome(Val(Val(scoreIn).config).numbers)
  /\ Len(Val(Val(Val(scoreIn).config).numbers)) = 19
  /\ Val(scoreIn).r = 0
  /\ Val(scoreOut).ring = Some("MISS")

\* the config's ringRatios is missing, or has a ratio that is missing or
\* not a number
BrokenRatios(config) ==
  /\ IsSome(config)
  /\ \/ Val(config).ringRatios = None
     \/ ~numericRatios(config)

\* C21: every hit scored with a config whose ringRatios is missing, or has
\* a missing or non-numeric ratio, gets the MISS result with 0 points.
C21_BrokenRatiosAreMiss ==
  IsSome(scoreOut) /\ BrokenRatios(Val(scoreIn).config) =>
    /\ Val(scoreOut).ring = Some("MISS")
    /\ Val(scoreOut).label = Some("MISS")
    /\ Val(scoreOut).points = Some(0)

\* the part the code does implement: ringRatios missing altogether
C21_MissingRatiosAreMiss ==
  ( /\ IsSome(scoreOut)
    /\ IsSome(Val(scoreIn).config)
    /\ Val(Val(scoreIn).config).ringRatios = None )
  => Val(scoreOut).ring = Some("MISS") /\ Val(scoreOut).points = Some(0)

\* the centre of the default board with ringRatios.outer undefined: the hit
\* is classified, as the inner bull with 50 points
C21_ClassifiedWithoutOuter ==
  /\ IsSome(scoreOut)
  /\ Val(scoreIn).config = Some(noOuterConfig)
  /\ Val(scoreIn).r = 0
  /\ Val(scoreOut).ring = Some("DBULL")
  /\ Val(scoreOut).points = Some(50)

----------------------------------------------------------------------------
(* Claims about the aim disc *)

\* the step is a call of releaseAndSampleHit
ReleaseStep == IsSome(aim) /\ aimCall' = "releaseAndSampleHit"

\* C22: every result of releaseAndSampleHit has its hit within the returned
\* radius of the returned centre, (hitX - centerX)^2 + (hitY - centerY)^2
\* <= radius^2; the returned radius is the disc's radius at the release,
\* before the reset, and the returned centre is the disc's centre.
C22_Step ==
  ReleaseStep =>
    /\ IsSome(shot')
    /\ Val(shot').offset * Val(shot').offset
         <= (SampleGrid * Val(shot').radius) * (SampleGrid * Val(shot').radius)
    /\ Val(shot').radius = Val(aim).radius
    /\ Val(shot').center = Val(aim).center
C22_HitWithinRadius == [][C22_Step]_vars

\* a release after a hold that has shrunk the disc, off the board's centre,
\* with a hit three quarters of the radius from the disc's centre
C22_Witness ==
  /\ IsSome(shot)
  /\ Val(shot).radius < maxRadius
  /\ Val(shot).radius > minRadius
  /\ Val(shot).center.len > 0
  /\ Val(shot).offset = 3 * Val(shot).radius
  /\ Val(aim).radius = maxRadius

\* C23: while holding, radius = maxRadius + (minRadius - maxRadius) *
\* clamp01(holdTime / shrinkTime) (both sides times shrinkTime); in every
\* state minRadius <= radius <= maxRadius; once holdTime >= shrinkTime the
\* radius is minRadius; and an update of a held disc with a non-negative
\* delta never makes the radius grow.
C23_Shape ==
  IsSome(aim) =>
    /\ Val(aim).holding =>
         shrinkTime * Val(aim).radius
           = shrinkTime * maxRadius
               + (minRadius - maxRadius) * Max({0, Min({shrinkTime, Val(aim).holdTime})})
    /\ minRadius <= Val(aim).radius
    /\ Val(aim).radius <= maxRadius
    /\ Val(aim).holding /\ Val(aim).holdTime >= shrinkTime => Val(aim).radius = minRadius
C23_Step ==
  ( /\ IsSome(aim)
    /\ aimCall' = "update"
    /\ Val(aim).holding
    /\ Val(aim').holdTime >= Val(aim).holdTime )
  => Val(aim').radius <= Val(aim).radius
C23_RadiusShrinksLinearly == []C23_Shape /\ [][C23_Step]_vars

\* a disc held for longer than shrinkTime, fully shrunk
C23_Witness ==
  /\ IsSome(aim)
  /\ Val(aim).enabled
  /\ Val(aim).holding
  /\ Val(aim).holdTime > shrinkTime
  /\ Val(aim).radius = minRadius
  /\ aimCall = "update"

\* the disc after an update made while it was enabled and not holding
AfterRoamingUpdate ==
  IsSome(aim) /\ aimCall = "update" /\ Val(aim).enabled /\ ~Val(aim).holding

\* distance(center, origin) + radius <= boardRadius - margin
WithinMargin ==
  Val(aim).center.len + 2 * Val(aim).radius <= Val(aim).boardRadius - margin

\* C24: on a board with boardRadius - maxRadius - margin > 0 the disc lies
\* within the margin, distance(center, origin) + radius <= boardRadius -
\* margin, after every update in the roaming state and in every other
\* state.
C24_WithinMarginOnAnyBoard ==
  IsSome(aim) /\ Val(aim).boardRadius - 2 * maxRadius - margin > 0 => WithinMargin

\* what the clamp does guarantee: the same on a board with
\* boardRadius - maxRadius - margin >= 0.001, the floor of its limit
C24_WithinMarginAboveFloor ==
  IsSome(aim) /\ Val(aim).boardRadius - 2 * maxRadius - margin >= MIN_LIMIT => WithinMargin

\* a roaming update on a board with 0 < boardRadius - maxRadius - margin
\* < 0.001 that leaves the centre on the floor of the limit, beyond the
\* margin
C24_BeyondMargin ==
  /\ AfterRoamingUpdate
  /\ Val(aim).boardRadius - 2 * maxRadius - margin > 0
  /\ Val(aim).center.len = MIN_LIMIT
  /\ ~WithinMargin

\* on every board with boardRadius - maxRadius - margin > 0 the disc lies
\* inside the board
C24_InsideBoard ==
  IsSome(aim) /\ Val(aim).boardRadius - 2 * maxRadius - margin > 0 =>
    Val(aim).center.len + 2 * Val(aim).radius <= Val(aim).boardRadius

\* the default board's disc after a roaming update whose target lay beyond
\* the limit: the centre is on the limit, boardRadius - maxRadius - margin
C24_Witness ==
  /\ AfterRoamingUpdate
  /\ Val(aim).boardRadius = DEFAULT_BOARD_RADIUS
  /\ Val(aim).center.len = DEFAULT_BOARD_RADIUS - 2 * maxRadius - margin
  /\ Val(aim).center.len + 2 * Val(aim).radius = Val(aim).boardRadius - margin

ResettingCalls == {"releaseAndSampleHit", "cancelHold", "setEnabled(false)"}
RoamingDefaults(state) ==
  /\ state.holding = FALSE
  /\ state.holdTime = 0
  /\ state.radius = maxRadius

\* C25: after releaseAndSampleHit, after cancelHold and after
\* setEnabled(false), whatever the state they are called in, the disc is
\* not holding, its holdTime is 0 and its radius is maxRadius.
C25_Step ==
  IsSome(aim) /\ aimCall' \in ResettingCalls => RoamingDefaults(Val(aim'))
C25_ResetToRoamingDefaults == [][C25_Step]_vars

\* the disc just after a release that returned a shrunk radius
C25_Witness ==
  /\ aimCall = "releaseAndSampleHit"
  /\ Val(shot).radius < maxRadius
  /\ RoamingDefaults(Val(aim))

\* C26: beginHold called on a disc that is already holding changes
\* nothing: holding, holdTime and radius stay as they were.
C26_Step ==
  IsSome(aim) /\ Val(aim).holding /\ aimCall' = "beginHold" => aim' = aim
C26_SecondBeginHoldIsNoOp == [][C26_Step]_vars

\* in the game a pointerdown that is accepted finds the disc not holding
C26_GameStep ==
  ~isHoldingAim /\ isHoldingAim' => ~Val(aimDisc).holding
C26_GameNeverRestartsHold == [][C26_GameStep]_vars

----------------------------------------------------------------------------
(* Claims about aiming in the game *)

\* a dart is flying or still resolving its impact
ThrowInFlight ==
  \E i \in 1..Len(activeDarts) :
    activeDarts[i].isFlying \/ ~activeDarts[i].impactDone

\* the step begins a hold: the input state or the disc starts holding
HoldBegins ==
  \/ ~isHoldingAim /\ isHoldingAim'
  \/ IsSome(aimDisc) /\ IsSome(aimDisc') /\ ~Val(aimDisc).holding /\ Val(aimDisc').holding

\* C27: while a throw is in flight no step begins a hold: a pointerdown
\* leaves isHoldingAim and the disc's holding as they are.
C27_Step == ThrowInFlight => ~HoldBegins
C27_NoHoldWhileBusy == [][C27_Step]_vars

\* a state in which only the throw in flight keeps a pointerdown from
\* being accepted
C27_Witness ==
  /\ gameStarted
  /\ roundActive
  /\ IsSome(aimDisc)
  /\ ~isHoldingAim
  /\ ThrowInFlight
  /\ ~activeDarts[1].isFlying

\* C28: in every state of the game a disc that is holding is enabled.
C28_HoldingImpliesEnabled ==
  IsSome(aimDisc) /\ Val(aimDisc).holding => Val(aimDisc).enabled

\* a hold begun on a disabled disc, in an active round with no throw in
\* flight
C28_HoldOnDisabledDisc ==
  /\ gameStarted
  /\ roundActive
  /\ isHoldingAim
  /\ IsSome(aimDisc)
  /\ Val(aimDisc).holding
  /\ ~Val(aimDisc).enabled
  /\ ~ThrowInFlight

\* once begun, the hold on the disabled disc never shrinks it: the frames
\* leave the disc disabled, at holdTime 0 and maxRadius
C28_DisabledHoldStaysStep ==
  C28_HoldOnDisabledDisc /\ isHoldingAim' =>
    /\ ~Val(aimDisc').enabled
    /\ Val(aimDisc').holdTime = 0
    /\ Val(aimDisc').radius = maxRadius
C28_DisabledHoldStays == [][C28_DisabledHoldStaysStep]_vars

----------------------------------------------------------------------------
(* Claims about the hold gesture in the game *)

\* the step registers a throw
ThrowRegistered ==
  dartsThrown' > dartsThrown \/ Len(throwHistory') > Len(throwHistory)
\* the step registers exactly one throw
OneThrowRegistered ==
  /\ dartsThrown' = dartsThrown + 1
  /\ Len(throwHistory') = Len(throwHistory) + 1
\* the step launches exactly one dart
OneDartLaunched ==
  /\ Len(activeDarts') = Len(activeDarts) + 1
  /\ SubSeq(activeDarts', 1, Len(activeDarts)) = activeDarts
  /\ activeDarts'[Len(activeDarts')] = newDart

\* C30, the gesture's end: a pointerup of the pointer that holds registers
\* exactly one throw and launches exactly one dart.
C30_GestureStep ==
  \A pointerId \in PointerIds, scoreResult \in GameResults :
    onAimPointerUp(pointerId, scoreResult) => OneThrowRegistered /\ OneDartLaunched
\* C30, no throw without a gesture: a step that registers a throw is the
\* pointerup of the pointer whose pointerdown began the hold.
C30_ThrowStep ==
  ThrowRegistered =>
    /\ isHoldingAim
    /\ \E pointerId \in PointerIds, scoreResult \in GameResults :
         /\ holdPointerId = Some(pointerId)
         /\ onAimPointerUp(pointerId, scoreResult)
\* C30, the gesture's begin: a hold begins only by a pointerdown, which
\* records its pointerId.
C30_BeginStep ==
  ~isHoldingAim /\ isHoldingAim' =>
    \E pointerId \in PointerIds :
      onAimPointerDown(pointerId) /\ holdPointerId' = Some(pointerId)
\* C30, another pointer: during a hold no step is the pointerup of a
\* pointer other than the one that holds: that pointerup changes nothing.
C30_OtherPointerStep ==
  \A pointerId \in PointerIds, scoreResult \in GameResults :
    isHoldingAim /\ holdPointerId # Some(pointerId)
      => ~onAimPointerUp(pointerId, scoreResult)

\* C30: each completed hold gesture registers exactly one throw and launches
\* exactly one dart; no throw is registered without an accepted pointerdown
\* before it; a pointerup with another pointerId changes nothing.
C30_OneThrowPerGesture ==
  [][C30_GestureStep /\ C30_ThrowStep /\ C30_BeginStep /\ C30_OtherPointerStep]_vars

\* the second gesture of a round has just been completed: two throws are
\* registered and the dart of the second is at the start of its flight
C30_Witness ==
  /\ gameStarted
  /\ roundActive
  /\ ~isHoldingAim
  /\ dartsThrown = 2
  /\ Len(throwHistory) = 2
  /\ Len(activeDarts) >= 1
  /\ activeDarts[Len(activeDarts)] = newDart

----------------------------------------------------------------------------
(* The submit request's validation *)

isBlank(str) == \A i \in 1..Len(str) : str[i] = 0
isFiniteNumber(score) == score.type = "number" /\ ~score.nan /\ score.num # Infinity
\* this step receives a request
Received == submit'.seq # submit.seq
Rejected == /\ submit'.pc = "responded"
            /\ submit'.status = 400
            /\ UNCHANGED lbVars

\* C29: a submit request whose userId is missing or blank, or whose score is
\* not a finite number, is answered with an error and no command is sent to
\* the store: the leaderboard's state and its calls in flight are unchanged.
C29_Step ==
  (Received /\ (\/ ~IsSome(submit'.userId)
                \/ isBlank(Val(submit'.userId))
                \/ ~isFiniteNumber(submit'.score)))
    => Rejected
C29_BadRequestRejected == [][C29_Step]_vars

\* C29, the part the code keeps: a missing or blank userId, a score that is
\* not of type number, and NaN are rejected before any store command.
C29_NoNumberStep ==
  (Received /\ (\/ ~IsSome(submit'.userId)
                \/ isBlank(Val(submit'.userId))
                \/ submit'.score.type # "number"
                \/ submit'.score.nan))
    => Rejected
C29_NoNumberRejected == [][C29_NoNumberStep]_vars

\* the request {userId, score: 1e999} has been answered with status 200 and
\* the sorted set holds Infinity
C29_InfinityStored ==
  /\ submit.status = 200
  /\ submit.score = jsNumber(Infinity)
  /\ \E u \in DOMAIN zset : zset[u] = Infinity

----------------------------------------------------------------------------
(* Claims about the cancelled hold *)

\* the disc's hold state is that of the roaming disc
RoamingHoldState(disc) ==
  /\ ~disc.holding
  /\ disc.holdTime = 0
  /\ disc.radius = maxRadius

\* C31: a pointercancel or pointerleave of the holding pointer during a hold
\* ends the hold without a throw: dartsThrown, totalScore and throwHistory
\* are unchanged, no dart is launched, and the disc is left not holding with
\* holdTime 0 and radius maxRadius.
C31_Step ==
  \A pointerId \in PointerIds :
    onAimPointerCancel(pointerId) =>
      /\ UNCHANGED <<dartsThrown, totalScore, throwHistory, activeDarts, lastScoreResult>>
      /\ ~isHoldingAim'
      /\ holdPointerId' = None
      /\ IsSome(aimDisc') /\ RoamingHoldState(Val(aimDisc'))
C31_CancelAbortsHold == [][C31_Step]_vars

\* a hold whose disc has shrunk, after a first throw of the round: the
\* pointercancel of the holding pointer is accepted here
C31_Witness ==
  /\ isHoldingAim
  /\ IsSome(holdPointerId)
  /\ IsSome(aimDisc)
  /\ Val(aimDisc).holding
  /\ Val(aimDisc).radius < maxRadius
  /\ dartsThrown >= 1
  /\ activeDarts = <<>>

----------------------------------------------------------------------------
(* Claims about the reticle's centre *)

\* C32: update leaves the centre of a holding disc unchanged; the centre
\* moves only in an update of an enabled disc that is not holding; and
\* releaseAndSampleHit samples around the centre the disc then has, which is
\* therefore the centre it had when the hold began.
C32_Step ==
  IsSome(aim) /\ IsSome(aim') =>
    /\ (aimCall' = "update" /\ Val(aim).holding
          => Val(aim').center = Val(aim).center)
    /\ (Val(aim').center # Val(aim).center
          => aimCall' = "update" /\ Val(aim).enabled /\ ~Val(aim).holding)
    /\ (aimCall' = "releaseAndSampleHit"
          => Val(shot').center = Val(aim).center /\ Val(aim').center = Val(aim).center)
C32_CenterFixedWhileHolding == [][C32_Step]_vars

\* an enabled disc away from the origin has just been updated while holding
C32_Witness ==
  /\ IsSome(aim)
  /\ aimCall = "update"
  /\ Val(aim).enabled
  /\ Val(aim).holding
  /\ Val(aim).holdTime > 0
  /\ Val(aim).center.len > 0

----------------------------------------------------------------------------
(* Claims about the frame's delta *)

\* the step is a frame in which the disc goes on holding
HoldingFrame ==
  /\ IsSome(aimDisc) /\ Val(aimDisc).enabled /\ Val(aimDisc).holding
  /\ IsSome(aimDisc') /\ Val(aimDisc').holding
HoldAdvance == Val(aimDisc').holdTime - Val(aimDisc).holdTime

\* C33: the delta the frame passes to the aim disc's update is not negative
\* and at most the frame's clamp of 1/30 s, so one frame advances holdTime
\* by at most that much.
C33_Step == HoldingFrame => HoldAdvance >= 0 /\ HoldAdvance <= AM_MAX_DELTA
C33_FrameAdvanceClamped == [][C33_Step]_vars

\* C33, the part the code keeps: no frame moves holdTime back
C33_NonNegativeStep == HoldingFrame => HoldAdvance >= 0
C33_FrameAdvanceNonNegative == [][C33_NonNegativeStep]_vars

\* the first frame of a hold came 1/20 s after the frame before it, and
\* holdTime is 1/20 s
C33_HitchAdvancesHold ==
  /\ isHoldingAim
  /\ IsSome(aimDisc)
  /\ Val(aimDisc).enabled
  /\ Val(aimDisc).holding
  /\ Val(aimDisc).holdTime > AM_MAX_DELTA
  /\ Val(aimDisc).holdTime < 2 * AM_MAX_DELTA

----------------------------------------------------------------------------
(* Claims about fetchTopN's fallback *)

\* the member's metadata is missing or does not parse
NoMetadata(u) == u \notin DOMAIN meta \/ ~meta[u].json

\* C34: an entry of fetchTopN whose member has no metadata, or metadata
\* that does not parse, has the member's raw sorted-set score as its score,
\* submittedAt 0 and no metadata, and its rank is its 1-based position in
\* the descending order.
C34_FallbackEntry ==
  fetch.returned =>
    /\ Len(fetch.ret) = Min({fetch.limit, zCard(zset)})
    /\ \A i \in 1..Len(fetch.ret) :
         LET e == fetch.ret[i]
         IN  /\ e.rank = i
             /\ e.userId = zAt(zset, zCard(zset) - i)
             /\ NoMetadata(e.userId) =>
                   /\ e.score = zset[e.userId]
                   /\ e.submittedAt = 0
                   /\ e.metadata = None

\* fetchTopN has returned two entries: the first has metadata that does not
\* parse, the second has none, and their sorted-set scores are not 0
C34_Witness ==
  /\ fetch.returned
  /\ Len(fetch.ret) = 2
  /\ fetch.ret[1].userId \in DOMAIN meta
  /\ ~meta[fetch.ret[1].userId].json
  /\ fetch.ret[2].userId \notin DOMAIN meta
  /\ fetch.ret[1].score # 0
  /\ fetch.ret[2].score # 0

----------------------------------------------------------------------------
(* Claims about endRound *)

\* C35: endRound called on a round that has ended and has not been reset
\* leaves roundActive false, leaves dartsThrown, totalScore and throwHistory
\* as they are, and shows the same summary {totalScore, throws} again.
C35_Step ==
  ~roundActive /\ EndRoundCall =>
    /\ ~roundActive'
    /\ UNCHANGED <<dartsThrown, totalScore, throwHistory>>
    /\ roundSummary(totalScore', throwHistory') = roundSummary(totalScore, throwHistory)
C35_EndRoundIdempotent == [][C35_Step]_vars

\* a round ended by its last dart with a score above 0: endRound called
\* again here leaves this state
C35_Witness ==
  /\ ~roundActive
  /\ roundEndShown
  /\ dartsThrown = MAX_DARTS_PER_ROUND
  /\ Len(throwHistory) = MAX_DARTS_PER_ROUND
  /\ totalScore > 0
  /\ roundSummary(totalScore, throwHistory).throws[1].points > 0

----------------------------------------------------------------------------
(* Claims about the store's two structures *)

\* C36: whenever no upsertScore call is in progress and no two calls of one
\* user have overlapped, the users with a metadata record are the members
\* of the sorted set, and each member's value is score * SCORE_MULTIPLIER -
\* submittedAt of the user's metadata record.
C36_StructuresAgree ==
  (Quiet /\ \A u \in Users : ~overlapped[u]) =>
    /\ DOMAIN meta = DOMAIN zset
    /\ \A u \in DOMAIN zset :
         /\ meta[u].json
         /\ zset[u] = meta[u].score * SCORE_MULTIPLIER - meta[u].submittedAt

\* every call has returned, none has overlapped another of its user, and
\* both users are stored, one of them with a score above 0
C36_Witness ==
  /\ Quiet
  /\ nCalls = MaxCalls
  /\ \A u \in Users : ~overlapped[u]
  /\ DOMAIN zset = Users
  /\ \E u \in Users : meta[u].score > 0

----------------------------------------------------------------------------
(* Claims about the order of fetchTopN's scores *)

\* C37: the score fields of the entries fetchTopN returns do not increase
\* with the rank, also when an upsertScore of a listed user runs between
\* fetchTopN's zRange and its hMGet.
C37_ScoresNonIncreasing ==
  fetch.returned =>
    \A i, j \in 1..Len(fetch.ret) : i < j => fetch.ret[i].score >= fetch.ret[j].score

\* fetchTopN has returned a list in which a later entry has the higher
\* score: both scores are scores that were submitted, read from the users'
\* metadata records, and no upsertScore call is in progress any more
C37_LaterEntryScoresHigher ==
  /\ fetch.returned
  /\ Quiet
  /\ Len(fetch.ret) = 2
  /\ fetch.ret[1].score < fetch.ret[2].score
  /\ \A i \in 1..2 : /\ IsSome(fetch.ret[i].metadata)
                       /\ fetch.ret[i].score \in submitted[fetch.ret[i].userId]

----------------------------------------------------------------------------
(* Claims about the two hold flags *)

\* the aim disc is holding
DiscHolding == IsSome(aimDisc) /\ Val(aimDisc).holding

\* C38: in every state between two handlers isHoldingAim is true exactly
\* when the aim disc is holding, and a hold implies gameStarted and
\* roundActive.
C38_HoldFlagsAgree ==
  /\ isHoldingAim <=> DiscHolding
  /\ isHoldingAim => gameStarted /\ roundActive
  /\ DiscHolding => gameStarted /\ roundActive

\* the ninth dart of a round has been thrown and the hold for the tenth
\* has run for some frames
C38_Witness ==
  /\ isHoldingAim
  /\ DiscHolding
  /\ Val(aimDisc).holdTime > 0
  /\ dartsThrown = MAX_DARTS_PER_ROUND - 1

----------------------------------------------------------------------------
(* Claims about the throw on the default board *)

----------------------------------------------------------------------------
(* Claims about the end of a throw *)

\* the step is a frame after whose update no throw is in progress, in a
\* started game with an active round and no hold
IdleFrame ==
  /\ \E delta \in Deltas : animate(delta)
  /\ gameStarted /\ roundActive /\ ~isHoldingAim
  /\ IsSome(aimDisc)
  /\ ~isBusy(activeDarts')

\* C40, the dart: once the game has started a dart in flight or in its
\* impact is eventually resolved, so that isBusy() is false.
C40_DartResolves == (gameStarted /\ isBusy(activeDarts)) ~> ~isBusy(activeDarts)
\* C40, the reticle: a frame that finds no throw in progress, the round
\* active and no hold enables the aim disc.
C40_IdleFrameEnables == [][IdleFrame => Val(aimDisc').enabled]_vars

\* C40: with frames that keep coming at positive deltas every dart thrown
\* after the start is eventually resolved, and the frame that then finds
\* the round active and no hold enables the aim disc again.
C40_ThrowEndsAndAimReturns == C40_DartResolves /\ C40_IdleFrameEnables

\* the dart of the round's first throw has been resolved and removed, and
\* the aim disc is enabled again
C40_Witness ==
  /\ gameStarted
  /\ roundActive
  /\ dartsThrown = 1
  /\ ~isHoldingAim
  /\ activeDarts = <<>>
  /\ IsSome(aimDisc)
  /\ Val(aimDisc).enabled

====
